---- MODULE Spec2Model ----
(***************************************************************************)
(* State-machine model of the VibeCity simulation core: Car.update         *)
(* (src/js/car.js) and Game.update with its sub-steps (game.js, found in    *)
(* src/unnamed/part_000).                                                   *)
(*                                                                          *)
(* Numbers are fixed point:                                                 *)
(*   lengths            1/100 world unit       (car radius 1.8  -> 180)     *)
(*   speeds             1/100 world unit / s   (maxSpeed 40     -> 4000)    *)
(*   time, deltaTime    milliseconds                                        *)
(*   unit vectors       1/1000                 (direction (0,0,1) -> 1000)  *)
(*   angles             1/1000 radian                                       *)
(*   factors            1/1000                 (boost multiplier 1.8->1800) *)
(* Products are divided back with truncation toward zero.                   *)
(*                                                                          *)
(* A local value that is used more than once is bound with Let(v, F),       *)
(* which is F(v): "Let(e, LAMBDA x : body)" reads "const x = e; body".      *)
(***************************************************************************)
EXTENDS Integers, Sequences, FiniteSets, TLC

Let(v, F(_)) == F(v)

----------------------------------------------------------------------------
(* Arithmetic helpers                                                       *)

Abs(a) == IF a < 0 THEN -a ELSE a

Min(a, b) == IF a < b THEN a ELSE b

Max(a, b) == IF a > b THEN a ELSE b

Sign(a) == IF a > 0 THEN 1 ELSE IF a < 0 THEN -1 ELSE 0

\* a / d, truncated toward zero
TDiv(a, d) == IF a >= 0 THEN a \div d ELSE -((-a) \div d)

\* a * n / d, truncated toward zero
MulDiv(a, n, d) == TDiv(a * n, d)

RECURSIVE SqrtSearch(_, _, _)
SqrtSearch(n, lo, hi) ==
    IF lo >= hi THEN lo
    ELSE LET mid == (lo + hi + 1) \div 2
         IN IF mid * mid <= n THEN SqrtSearch(n, mid, hi)
                              ELSE SqrtSearch(n, lo, mid - 1)

\* floor(sqrt(n)) for 0 <= n < 2^31
ISqrt(n) == SqrtSearch(n, 0, Min(n, 46340))

----------------------------------------------------------------------------
(* Trigonometry on milliradians, results in 1/1000                          *)

\* Math.PI, Math.PI / 2 and Math.PI * 2 in milliradians
PiMilli == 3142

HalfPiMilli == 1571

TwoPiMilli == 6283

\* wrap an angle into (-pi, pi]
WrapAngle(a) ==
    LET m == a % TwoPiMilli
    IN IF m > PiMilli THEN m - TwoPiMilli ELSE m

\* reflect an angle of (-pi, pi] into [-pi/2, pi/2] keeping its sine
FoldAngle(w) ==
    IF w > HalfPiMilli THEN PiMilli - w
    ELSE IF w < -HalfPiMilli THEN -PiMilli - w
    ELSE w

\* Taylor polynomial of sin on [-pi/2, pi/2]
SinPoly(x) ==
    Let((x * x) \div 1000, LAMBDA x2 :
    Let(TDiv(TDiv(x * x2, 1000), 6), LAMBDA t3 :
    Let(TDiv(TDiv(t3 * x2, 1000), 20), LAMBDA t5 :
        x - t3 + t5 - TDiv(TDiv(t5 * x2, 1000), 42))))

Sin(a) == Max(-1000, Min(1000, SinPoly(FoldAngle(WrapAngle(a)))))

Cos(a) == Sin(a + HalfPiMilli)

RECURSIVE AtanSearch(_, _, _, _)
\* largest angle in [lo, hi] (first octant) whose tangent is <= num/den
AtanSearch(num, den, lo, hi) ==
    IF lo >= hi THEN lo
    ELSE Let((lo + hi + 1) \div 2, LAMBDA mid :
             IF Sin(mid) * den <= Cos(mid) * num
             THEN AtanSearch(num, den, mid, hi)
             ELSE AtanSearch(num, den, lo, mid - 1))

\* atan(num/den) for 0 <= num, 0 < den or 0 < num, in [0, pi/2]
AtanPos(num, den) ==
    IF num = 0 THEN 0
    ELSE IF den = 0 THEN HalfPiMilli
    ELSE IF num <= den THEN AtanSearch(num, den, 0, 786)
    ELSE HalfPiMilli - AtanSearch(den, num, 0, 786)

\* the quadrant rule of Math.atan2 for the first-quadrant angle a
Quadrant(a, ys, xs) ==
    IF xs = 0 /\ ys = 0 THEN 0
    ELSE IF xs >= 0 THEN (IF ys >= 0 THEN a ELSE -a)
    ELSE (IF ys >= 0 THEN PiMilli - a ELSE a - PiMilli)

\* Math.atan2(y, x); arguments are scaled down to keep products small
Atan2(y, x) ==
    Let((Max(Abs(y), Abs(x)) \div 2000) + 1, LAMBDA k :
        Quadrant(AtanPos(Abs(TDiv(y, k)), Abs(TDiv(x, k))), TDiv(y, k), TDiv(x, k)))

----------------------------------------------------------------------------
(* THREE.Vector3                                                            *)

Vec(x, y, z) == [x |-> x, y |-> y, z |-> z]

ZeroVec == Vec(0, 0, 0)

VAdd(a, b) == Vec(a.x + b.x, a.y + b.y, a.z + b.z)

VSub(a, b) == Vec(a.x - b.x, a.y - b.y, a.z - b.z)

\* multiplyScalar(n / d)
VScale(v, n, d) == Vec(MulDiv(v.x, n, d), MulDiv(v.y, n, d), MulDiv(v.z, n, d))

VDot(a, b) == a.x * b.x + a.y * b.y + a.z * b.z

\* the divisor that brings every component of v below 200 units
Coarse(v) == (Max(Abs(v.x), Max(Abs(v.y), Abs(v.z))) \div 20000) + 1

\* v / k, component-wise
VDiv(v, k) == Vec(TDiv(v.x, k), TDiv(v.y, k), TDiv(v.z, k))

\* length(); long vectors are measured on a coarser grid to stay in 32 bits
VLen(v) == Let(Coarse(v), LAMBDA k : Let(VDiv(v, k), LAMBDA s : k * ISqrt(VDot(s, s))))

\* lengthSq() with every component saturated at 260 units
SatSq(d) == Let(Min(Abs(d), 26000), LAMBDA a : a * a)

VLenSq(v) == SatSq(v.x) + SatSq(v.y) + SatSq(v.z)

\* s / l in 1/1000; the zero vector stays zero
Unit(s, l) ==
    IF l = 0 THEN ZeroVec
    ELSE Vec(MulDiv(s.x, 1000, l), MulDiv(s.y, 1000, l), MulDiv(s.z, 1000, l))

\* normalize(): unit vector in 1/1000
VNormalize(v) == Let(VDiv(v, Coarse(v)), LAMBDA s : Unit(s, ISqrt(VDot(s, s))))

\* a.distanceTo(b) < t  and  a.distanceTo(b) > t, for t below 260 units
DistLT(a, b, t) == VLenSq(VSub(a, b)) < t * t

DistGT(a, b, t) == VLenSq(VSub(a, b)) > t * t

\* Vector3(0,0,1).applyEuler(Euler(pitch, yaw, roll, 'XYZ'))
ForwardOf(rot) ==
    Vec(Sin(rot.y),
        -MulDiv(Sin(rot.x), Cos(rot.y), 1000),
        MulDiv(Cos(rot.x), Cos(rot.y), 1000))

----------------------------------------------------------------------------
(* Car: tunables set by the constructor                                     *)

maxSpeed == 4000

acceleration == 2500

braking == 3500

deceleration == 800

\* Math.PI * 1.2 rad/s
turnSpeed == 3770

\* 0.15, in 1/1000
turnInertia == 150

gravity == 2000

boundingRadius == 180

\* 0.3, in 1/1000
bounceFactor == 300

\* 0.6, in 1/1000
driftThreshold == 600

\* nominal ride height 0.5
RideHeight == 50

\* keys as read through InputHandler.isKeyDown: up = ArrowUp or w, ...
KeyState(u, d, l, r) == [up |-> u, down |-> d, left |-> l, right |-> r]

NoKeys == KeyState(FALSE, FALSE, FALSE, FALSE)

\* new Car(scene)
NewCar ==
    [position |-> Vec(0, RideHeight, 0),
     rotation |-> Vec(0, 0, 0),
     direction |-> Vec(0, 0, 1000),
     velocity |-> ZeroVec,
     speed |-> 0,
     isAirborne |-> FALSE,
     verticalVelocity |-> 0,
     onRamp |-> FALSE,
     rampHeight |-> 0,
     currentRamp |-> 0,
     currentTurnAmount |-> 0,
     lastValidPosition |-> Vec(0, RideHeight, 0),
     colliding |-> FALSE,
     isDrifting |-> FALSE,
     driftMarks |-> <<>>,
     lastDriftMarkTime |-> 0]

\* a steering curve that rises again above normalizedSpeed 0.6: the
\* steering property below must tell it from the real one
SteeringBandRising(normalizedSpeed) ==
    IF normalizedSpeed < 200 THEN 1200
    ELSE IF normalizedSpeed < 600 THEN 1000
    ELSE 800 + MulDiv(normalizedSpeed - 600, 300, 1000)

\* the three bands of getSteeringIntensity over normalizedSpeed (1/1000)
SteeringBand(normalizedSpeed) ==
    IF normalizedSpeed < 200 THEN 1200
    ELSE IF normalizedSpeed < 600 THEN 1000
    ELSE 800 - MulDiv(normalizedSpeed - 600, 300, 1000)

\* Car.getSteeringIntensity, in 1/1000
getSteeringIntensity(speed) == SteeringBand((Abs(speed) * 1000) \div maxSpeed)

\* a grounded step whose engine delivers half the acceleration: the
\* acceleration property below must tell it from the real one
GroundSpeedHalfRate(speed, keys, dt) ==
    IF keys.up THEN Min(speed + MulDiv(acceleration \div 2, dt, 1000), maxSpeed)
    ELSE speed

\* speed after the grounded acceleration / brake / coast step
GroundSpeed(speed, keys, dt) ==
    IF keys.up THEN Min(speed + MulDiv(acceleration, dt, 1000), maxSpeed)
    ELSE IF keys.down THEN Max(speed - MulDiv(braking, dt, 1000), -(maxSpeed \div 2))
    ELSE IF speed > 0 THEN Max(speed - MulDiv(deceleration, dt, 1000), 0)
    ELSE IF speed < 0 THEN Min(speed + MulDiv(deceleration, dt, 1000), 0)
    ELSE speed

\* speed after the airborne air-resistance step
AirSpeed(speed, dt) ==
    IF speed > 0 THEN Max(speed - MulDiv(deceleration, dt, 10000), 0)
    ELSE IF speed < 0 THEN Min(speed + MulDiv(deceleration, dt, 10000), 0)
    ELSE speed

\* in-air roll and pitch control
AirRotation(rot, keys, dt) ==
    Vec(IF keys.up THEN Min(rot.x + MulDiv(800, dt, 1000), 500)
        ELSE IF keys.down THEN Max(rot.x - MulDiv(800, dt, 1000), -500)
        ELSE rot.x,
        rot.y,
        IF keys.left THEN rot.z - MulDiv(1500, dt, 1000)
        ELSE IF keys.right THEN rot.z + MulDiv(1500, dt, 1000)
        ELSE rot.z)

\* Car.update, acceleration / deceleration and in-air rotation control
Longitudinal(c, keys, dt) ==
    IF ~c.isAirborne
    THEN [c EXCEPT !.speed = GroundSpeed(c.speed, keys, dt)]
    ELSE [c EXCEPT !.speed = AirSpeed(c.speed, dt),
                   !.rotation = AirRotation(c.rotation, keys, dt)]

\* a drift flag that does not look at the airborne state: the drift
\* property below must tell it from the real one
DriftingInFlight(c, keys) ==
    /\ Abs(c.speed) > 10 /\ (keys.left \/ keys.right)
    /\ Abs(c.speed) * 1000 > driftThreshold * maxSpeed
    /\ ~c.onRamp

\* isDrifting as assigned by Car.update
Drifting(c, keys) ==
    /\ Abs(c.speed) > 10 /\ ~c.isAirborne /\ (keys.left \/ keys.right)
    /\ Abs(c.speed) * 1000 > driftThreshold * maxSpeed
    /\ ~c.isAirborne /\ ~c.onRamp

\* currentTurnAmount after the inertia blend towards the pressed side
TurnAmount(c, keys) ==
    MulDiv(c.currentTurnAmount, 1000 - turnInertia, 1000)
    + MulDiv(IF keys.left THEN 1000 ELSE IF keys.right THEN -1000 ELSE 0,
             turnInertia, 1000)

\* the car turned by currentTurnAmount cta
Turned(c, cta, rot, keys) ==
    [c EXCEPT !.currentTurnAmount = cta,
              !.rotation = rot,
              !.direction = ForwardOf(rot),
              !.isDrifting = Drifting(c, keys)]

\* rotation.y += turnSpeed * deltaTime * steeringIntensity * currentTurnAmount
YawStep(c, cta, dt) ==
    MulDiv(MulDiv(MulDiv(turnSpeed, dt, 1000), getSteeringIntensity(c.speed), 1000),
           cta, 1000)

\* Car.update, steering with turn inertia and the drift flag
Steering(c, keys, dt) ==
    IF Abs(c.speed) > 10 /\ ~c.isAirborne
    THEN Let(TurnAmount(c, keys), LAMBDA cta :
             Turned(c, cta,
                    Vec(c.rotation.x, c.rotation.y + YawStep(c, cta, dt), c.rotation.z),
                    keys))
    ELSE [c EXCEPT !.currentTurnAmount =
                       MulDiv(c.currentTurnAmount, 1000 - 2 * turnInertia, 1000),
                   !.isDrifting = Drifting(c, keys)]

\* seconds of drifting between two pairs of marks, in ms
driftMarkInterval == 50

maxDriftMarks == 100

\* userData.lifespan of a mark, ms
lifespan == 5000

\* a drift mark: of its mesh the model keeps the wheel it lies behind and
\* userData.creationTime
Mark(now, wheel) == [creationTime |-> now, wheel |-> wheel]

\* a push that turns the new mark away when the list is full: the cap
\* property below must tell it from the real one
PushMarkKeepOld(marks, mark) ==
    IF Len(marks) + 1 > maxDriftMarks THEN marks ELSE Append(marks, mark)

\* driftMarks.push(mark), then shift() if the list is longer than the cap
PushMark(marks, mark) ==
    IF Len(marks) + 1 > maxDriftMarks THEN Tail(Append(marks, mark))
    ELSE Append(marks, mark)

\* "Update existing drift marks": marks whose age has reached the lifespan
\* are removed
FadeMarks(marks, now) ==
    SelectSeq(marks, LAMBDA mark : now - mark.creationTime < lifespan)

\* the marks after a pair was laid at the time now, rear left wheel first
LayPair(marks, now) ==
    FadeMarks(PushMark(PushMark(marks, Mark(now, "left")), Mark(now, "right")), now)

\* Car.createDriftMarks(deltaTime, turnDirection), with Date.now() = now
createDriftMarks(c, dt, now) ==
    IF c.lastDriftMarkTime + dt < driftMarkInterval
    THEN [c EXCEPT !.lastDriftMarkTime = c.lastDriftMarkTime + dt]
    ELSE [c EXCEPT !.lastDriftMarkTime = 0,
                   !.driftMarks = LayPair(c.driftMarks, now)]

\* Car.update, "Create drift marks if drifting"
DriftMarks(c, dt, now) == IF c.isDrifting THEN createDriftMarks(c, dt, now) ELSE c

----------------------------------------------------------------------------
(* Collision resolver (Car.checkCollisions and helpers)                     *)

BoxTypes == {"building", "skyscraper", "boundary", "stadium"}

\* an entry of City.obstacles; hasPosition, mesh, geometry and parameters
\* tell whether obstacle.position, obstacle.mesh, mesh.geometry and
\* geometry.parameters are there, width / depth / rotation are those
\* parameters and mesh.rotation.y
Obstacle(type, pos, radius, width, depth, rot) ==
    [type |-> type, hasPosition |-> TRUE, position |-> pos,
     boundingRadius |-> radius, mesh |-> TRUE, geometry |-> TRUE,
     parameters |-> TRUE,
     width |-> width, depth |-> depth, rotation |-> rot]

\* (diff / d) of lineIntersectsBox; a zero d is replaced by 0.00001
SlabParam(diff, d) ==
    IF d # 0 THEN TDiv(diff * 1000, d)
    ELSE 100000 * Max(-21000, Min(21000, diff))

\* entry and exit parameter of the line through one pair of box faces
Slab(lo, hi, s, d) ==
    [min |-> Min(SlabParam(lo - s, d), SlabParam(hi - s, d)),
     max |-> Max(SlabParam(lo - s, d), SlabParam(hi - s, d))]

\* the two rejection tests of lineIntersectsBox
SlabMiss(tMin, tMax, length) == tMax < 0 \/ tMin > tMax \/ tMin > length

\* lineIntersectsBox once the x/y interval [tMinFinal, tMaxFinal] is known
SlabZ(tMinFinal, tMaxFinal, sz, length) ==
    IF SlabMiss(tMinFinal, tMaxFinal, length) THEN FALSE
    ELSE ~SlabMiss(Max(tMinFinal, sz.min), Min(tMaxFinal, sz.max), length)

\* lineIntersectsBox for the segment start + t * dir, 0 <= t <= length
SlabTest(start, dir, length, bmin, bmax) ==
    Let(Slab(bmin.x, bmax.x, start.x, dir.x), LAMBDA sx :
    Let(Slab(bmin.y, bmax.y, start.y, dir.y), LAMBDA sy :
        SlabZ(Max(sx.min, sy.min), Min(sx.max, sy.max),
              Slab(bmin.z, bmax.z, start.z, dir.z), length)))

\* Car.lineIntersectsBox(start, end, box)
lineIntersectsBox(start, end, bmin, bmax) ==
    Let(VSub(end, start), LAMBDA delta :
        SlabTest(start, VNormalize(delta), VLen(delta), bmin, bmax))

\* rotation of (x, z) about the y axis by the angle with cosine c, sine sn
RotateXZ(x, z, c, sn) == Vec(TDiv(x * c - z * sn, 1000), 0, TDiv(x * sn + z * c, 1000))

\* the four footprint corners of checkBoxCollision, rotated and translated
BoxCorner(o, i) ==
    VAdd(RotateXZ(IF i \in {1, 4} THEN -(o.width \div 2) ELSE o.width \div 2,
                  IF i \in {1, 2} THEN -(o.depth \div 2) ELSE o.depth \div 2,
                  Cos(o.rotation), Sin(o.rotation)),
         o.position)

\* "Check if the car is completely inside the building"; rel is relativePos
InsideFootprint(rel, o, c, sn) ==
    /\ 2 * Abs(TDiv(rel.x * c + rel.z * sn, 1000)) < o.width
    /\ 2 * Abs(TDiv(-rel.x * sn + rel.z * c, 1000)) < o.depth

\* Car.checkBoxCollision(position, obstacle)
checkBoxCollision(position, o) ==
    IF ~o.mesh \/ ~o.geometry THEN FALSE
    ELSE IF ~o.parameters THEN FALSE
    ELSE \/ \E i \in 1..4 :
              lineIntersectsBox(BoxCorner(o, i), BoxCorner(o, (i % 4) + 1),
                                VSub(position, Vec(boundingRadius, boundingRadius, boundingRadius)),
                                VAdd(position, Vec(boundingRadius, boundingRadius, boundingRadius)))
         \/ InsideFootprint(VSub(position, o.position), o,
                            Cos(-o.rotation), Sin(-o.rotation))

NoCollision == [colliding |-> FALSE, obstacle |-> 0, collisionNormal |-> ZeroVec]

\* does the shape test of obstacle o hit at position
ObstacleHits(position, o) ==
    /\ o.hasPosition
    /\ IF o.type \in BoxTypes
       THEN checkBoxCollision(position, o)
       ELSE /\ o.boundingRadius # 0
            /\ DistLT(position, o.position, boundingRadius + o.boundingRadius)

RECURSIVE ScanToLast(_, _, _)
\* a scan that goes on after a hit and reports the last obstacle that
\* hits: the first-hit property below must tell it from the real one
ScanToLast(position, obs, i) ==
    IF i > Len(obs) THEN NoCollision
    ELSE Let(ScanToLast(position, obs, i + 1), LAMBDA rest :
             IF rest.colliding \/ ~ObstacleHits(position, obs[i]) THEN rest
             ELSE [colliding |-> TRUE, obstacle |-> i,
                   collisionNormal |-> VNormalize(VSub(position, obs[i].position))])

RECURSIVE ScanToDefect(_, _, _)
\* a scan that gives up at the first entry without a position: the
\* skipping property below must tell it from the real one
ScanToDefect(position, obs, i) ==
    IF i > Len(obs) THEN NoCollision
    ELSE IF ~obs[i].hasPosition THEN NoCollision
    ELSE IF ObstacleHits(position, obs[i])
    THEN [colliding |-> TRUE, obstacle |-> i,
          collisionNormal |-> VNormalize(VSub(position, obs[i].position))]
    ELSE ScanToDefect(position, obs, i + 1)

RECURSIVE ScanObstacles(_, _, _)
\* for (const obstacle of obstacles), from entry i on
ScanObstacles(position, obs, i) ==
    IF i > Len(obs) THEN NoCollision
    ELSE IF ObstacleHits(position, obs[i])
    THEN [colliding |-> TRUE, obstacle |-> i,
          collisionNormal |-> VNormalize(VSub(position, obs[i].position))]
    ELSE ScanObstacles(position, obs, i + 1)

\* Car.checkCollisions(position, obstacles); obstacle is the list index
checkCollisions(position, obs) == ScanObstacles(position, obs, 1)

----------------------------------------------------------------------------
(* Car.update: integration, collision response, vertical state machine      *)

RECURSIVE SweepStep(_, _, _, _, _, _)
\* the loop over the numSteps sample points of the airborne sweep
SweepStep(from, moveDir, moveDistance, numSteps, i, obs) ==
    IF i > numSteps THEN NoCollision
    ELSE Let(checkCollisions(VAdd(from, VScale(moveDir, (moveDistance * i) \div numSteps, 1000)),
                             obs),
             LAMBDA checkResult :
                 IF checkResult.colliding THEN checkResult
                 ELSE SweepStep(from, moveDir, moveDistance, numSteps, i + 1, obs))

\* the sweep from position over moveDistance along moveDir
Sweep(from, moveDir, moveDistance, obs) ==
    SweepStep(from, moveDir, moveDistance, Max(3, (moveDistance + 199) \div 200), 1, obs)

\* the collision test of Car.update: swept when airborne and speed > 15
CollisionCheck(c, newPosition, obs) ==
    IF c.isAirborne /\ c.speed > 1500
    THEN Sweep(c.position, VNormalize(VSub(newPosition, c.position)),
               VLen(VSub(newPosition, c.position)), obs)
    ELSE checkCollisions(newPosition, obs)

\* reflection of velocity v along the normal n (v - 2(v.n)n), normalized
Reflect(v, n) == VNormalize(VSub(v, VScale(n, 2 * TDiv(VDot(v, n), 1000), 1000)))

\* "Move car to a safe position to prevent clipping"
SafePosition(c, o) ==
    IF DistGT(c.lastValidPosition, o.position, boundingRadius + o.boundingRadius)
    THEN c.lastValidPosition
    ELSE VAdd(o.position,
              VScale(VNormalize(VSub(c.position, o.position)),
                     boundingRadius + o.boundingRadius + 10, 1000))

\* the hop of a significant impact: airborne flag and vertical velocity
HopAirborne(c) == c.isAirborne \/ Abs(c.speed) > 1000

\* a collision response that leaves the vertical velocity alone
KeepVelocity(c) == c.verticalVelocity

HopVelocity(c) ==
    IF Abs(c.speed) > 1000 THEN 300 + Min(500, Abs(c.speed) \div 10)
    ELSE c.verticalVelocity

\* the car after the bounce, the safe-position move and the obstacle landing
Bounced(c, o, bounceDirection, landed) ==
    [c EXCEPT !.colliding = TRUE,
              !.direction = bounceDirection,
              !.speed = MulDiv(Abs(c.speed), bounceFactor, 1000),
              !.isAirborne = HopAirborne(c) /\ ~landed,
              !.verticalVelocity = IF landed THEN 0 ELSE HopVelocity(c),
              !.rotation = Vec(IF landed THEN 0 ELSE c.rotation.x,
                               Atan2(bounceDirection.x, bounceDirection.z),
                               IF landed THEN 0 ELSE c.rotation.z),
              !.position = SafePosition(c, o)]

\* the branch of Car.update taken when collisionResult.colliding
ResolveCollision(c, res, obs) ==
    Bounced(c, obs[res.obstacle], Reflect(c.velocity, res.collisionNormal),
            HopAirborne(c) /\ HopVelocity(c) < 0)

\* a landing that keeps the speed and the tilt of the flight
FallKeepsSpeed(c, vv, y) ==
    IF y <= RideHeight
    THEN [c EXCEPT !.position.y = RideHeight, !.isAirborne = FALSE,
                   !.verticalVelocity = 0]
    ELSE [c EXCEPT !.position.y = y, !.verticalVelocity = vv]

\* the airborne branch once gravity gave vertical velocity vv and height y
Fall(c, vv, y) ==
    IF y <= RideHeight
    THEN [c EXCEPT !.position.y = RideHeight,
                   !.isAirborne = FALSE,
                   !.verticalVelocity = 0,
                   !.speed = MulDiv(c.speed, 700, 1000),
                   !.rotation.x = TDiv(c.rotation.x, 2),
                   !.rotation.z = TDiv(c.rotation.z, 2)]
    ELSE [c EXCEPT !.position.y = y, !.verticalVelocity = vv]

\* rotation.x / rotation.z easing back to level on the ground
Level(a) == IF Abs(a) > 10 THEN MulDiv(a, 900, 1000) ELSE 0

\* Car.update, "Handle airborne state" and the grounded / on-ramp branches
Vertical(c, dt) ==
    IF c.isAirborne
    THEN Let(c.verticalVelocity - MulDiv(gravity, dt, 1000), LAMBDA vv :
             Fall(c, vv, c.position.y + MulDiv(vv, dt, 1000)))
    ELSE IF ~c.onRamp
    THEN [c EXCEPT !.position.y = RideHeight,
                   !.rotation.x = Level(c.rotation.x),
                   !.rotation.z = Level(c.rotation.z)]
    ELSE [c EXCEPT !.rotation.x = MulDiv(c.rotation.x, 900, 1000)
                                  + MulDiv(-TDiv(Atan2(c.rampHeight, 800), 2), 100, 1000)]

\* the top of Car.update: lastValidPosition, input, steering and velocity
Drive(car0, keys, dt, now) ==
    Let(DriftMarks(Steering(Longitudinal(IF ~car0.colliding
                                         THEN [car0 EXCEPT !.lastValidPosition = car0.position]
                                         ELSE car0,
                                         keys, dt),
                            keys, dt),
                   dt, now),
        LAMBDA c1 : [c1 EXCEPT !.velocity = VScale(c1.direction, c1.speed, 1000)])

\* the move to newPosition or the collision response
Move(c2, newPosition, res, obs) ==
    IF ~res.colliding
    THEN [c2 EXCEPT !.colliding = FALSE, !.position = newPosition]
    ELSE ResolveCollision(c2, res, obs)

\* what Car.update did, once the collision result res is known
Collide(c2, newPosition, res, obs, dt) ==
    Let(Move(c2, newPosition, res, obs), LAMBDA c3 :
        [car |-> Vertical(c3, dt),
         collided |-> res.colliding,
         obstacle |-> res.obstacle,
         impactSpeed |-> c2.speed,
         dirBefore |-> c2.direction,
         from |-> c2.position,
         airborneBefore |-> c2.isAirborne,
         fallSpeedBefore |-> c2.verticalVelocity,
         resolved |-> c3])

\* Car.update from the candidate position on
Advance(c2, newPosition, obs, dt) ==
    Collide(c2, newPosition, CollisionCheck(c2, newPosition, obs), obs, dt)

\* Car.update(inputHandler, deltaTime, obstacles) at the wall-clock time
\* now.  The result carries the car and, for the properties below, what
\* the collision step saw.
CarUpdate(car0, keys, dt, obs, now) ==
    Let(Drive(car0, keys, dt, now), LAMBDA c2 :
        Advance(c2, VAdd(c2.position, VScale(c2.velocity, dt, 1000)), obs, dt))

----------------------------------------------------------------------------
(* Game: boost, world boundary, ramps and launchpads                        *)

citySize == 3

blockSize == 5000

roadWidth == 1000

\* halfSize of Game.update / halfBounds of updateHumans
HalfSize == (citySize * blockSize + (citySize + 1) * roadWidth) \div 2

\* Game.setupSpeedBoost
NewBoost == [available |-> 100000, active |-> FALSE, currentMultiplier |-> 1000]

BoostMax == 100000

\* per millisecond, in 1/1000 of a boost point
rechargeRate == 10

depleteRate == 30

speedMultiplier == 1800

\* Game.updateBoost(deltaTime)
updateBoost(b, dt) ==
    IF b.active /\ b.available > 0
    THEN [b EXCEPT !.available = Max(0, b.available - depleteRate * dt)]
    ELSE [b EXCEPT !.available = Min(BoostMax, b.available + rechargeRate * dt)]

\* boost.currentMultiplier after its interpolation step
NextMultiplier(b, dt) ==
    b.currentMultiplier
    + MulDiv(((IF b.active /\ b.available > 0 THEN speedMultiplier ELSE 1000)
              - b.currentMultiplier) * 2, dt, 1000)

\* car speed after the multiplier cur is applied
BoostedSpeed(c, cur, dt) ==
    IF cur > 1010
    THEN IF c.isAirborne
         THEN IF c.speed < 2500
              THEN Min(c.speed + MulDiv(((cur - 1000) * 1000) \div (speedMultiplier - 1000),
                                        dt, 1000),
                       2500)
              ELSE c.speed
         ELSE MulDiv(c.speed, cur, 1000)
    ELSE c.speed

\* the boost step for the multiplier cur giving speed sp
Boosted(c, b, cur, sp) ==
    [car |-> [c EXCEPT !.speed = sp],
     boost |-> [b EXCEPT !.currentMultiplier = cur],
     applied |-> cur > 1010 /\ sp # c.speed]

\* Game.update, "Apply speed boost with smooth transition"
ApplyBoost(c, b, dt) ==
    Let(NextMultiplier(b, dt), LAMBDA cur : Boosted(c, b, cur, BoostedSpeed(c, cur, dt)))

\* the boundary normal of a position outside the playable rectangle
BoundaryNormal(p, limit) ==
    VNormalize(Vec(IF Abs(p.x) > limit THEN -1000 * Sign(p.x) ELSE 0, 0,
                   IF Abs(p.z) > limit THEN -1000 * Sign(p.z) ELSE 0))

\* the bounce off the boundary towards bounceVelocity with reduced speed sp
BoundaryBounce(c, bounceVelocity, sp) ==
    [c EXCEPT !.direction = bounceVelocity,
              !.speed = sp,
              !.rotation.y = Atan2(bounceVelocity.x, bounceVelocity.z),
              !.isAirborne = c.isAirborne \/ Abs(sp) > 1500,
              !.verticalVelocity = IF Abs(sp) > 1500 /\ ~c.isAirborne
                                   THEN 400 ELSE c.verticalVelocity]

\* the boundary response for the normal n
BoundaryResponse(c, n) ==
    IF VDot(c.velocity, n) < 0
    THEN BoundaryBounce(c, Reflect(c.velocity, n), MulDiv(c.speed, 400, 1000))
    ELSE [c EXCEPT !.speed = MulDiv(c.speed, 500, 1000)]

\* is the position beyond halfSize - buffer
OutOfBounds(p) == Abs(p.x) > HalfSize - 1000 \/ Abs(p.z) > HalfSize - 1000

\* Game.update, "Enforce a hard boundary for the car".  carPosition is a
\* clone (Car.getPosition); the clamped clone is never copied back.
EnforceBoundary(c) ==
    IF ~OutOfBounds(c.position) THEN c
    ELSE BoundaryResponse(c, BoundaryNormal(c.position, HalfSize - 1000))

\* an entry of City.ramps made by createRamp
Ramp(pos, rot, width, length, height, jumpStrength) ==
    [type |-> "ramp", omnidirectional |-> FALSE, position |-> pos,
     rotation |-> rot, width |-> width, length |-> length, height |-> height,
     jumpStrength |-> jumpStrength, radius |-> 0]

\* an entry of City.ramps made by createLaunchpad
Launchpad(pos, radius, height, jumpStrength) ==
    [type |-> "launchpad", omnidirectional |-> TRUE, position |-> pos,
     rotation |-> 0, width |-> 0, length |-> 0, height |-> height,
     jumpStrength |-> jumpStrength, radius |-> radius]

\* the state of the ramp loop: the car and the loop's local variables;
\* launches counts the calls of createJumpParticles
RampState(c, onAnyRamp, currentRampHeight, currentRamp, done, launches) ==
    [car |-> c, onAnyRamp |-> onAnyRamp, currentRampHeight |-> currentRampHeight,
     currentRamp |-> currentRamp, done |-> done, launches |-> launches]

\* launchStrength = baseJumpStrength * speedFactor * (0.7 + centerBonus * 0.3)
LaunchStrength(ramp, carSpeed, distanceSquared) ==
    MulDiv(MulDiv(Min(ramp.jumpStrength, 2200), Min(1000, MulDiv(carSpeed, 1000, 2500)), 1000),
           700 + MulDiv(1000 - (ISqrt(distanceSquared) * 1000) \div ramp.radius, 300, 1000),
           1000)

\* "Apply a small speed boost for more fun"
PadNudge(speed, carSpeed) == IF carSpeed > 1000 THEN MulDiv(speed, 1020, 1000) ELSE speed

\* the car after the launchpad branch
PadCar(c, ramp, carSpeed, distanceSquared) ==
    IF c.isAirborne THEN c
    ELSE IF carSpeed <= 500
    THEN [c EXCEPT !.position.y = RideHeight + ramp.height,
                   !.speed = PadNudge(c.speed, carSpeed)]
    ELSE [c EXCEPT !.position.y = RideHeight + ramp.height,
                   !.isAirborne = TRUE,
                   !.verticalVelocity = LaunchStrength(ramp, carSpeed, distanceSquared),
                   !.rotation.x = -200 - MulDiv(Min(1000, MulDiv(carSpeed, 1000, 2500)), 300, 1000),
                   !.speed = IF carSpeed > 3000 THEN 3000
                             ELSE MulDiv(PadNudge(c.speed, carSpeed), 1050, 1000)]

\* body of the ramp loop for an omnidirectional launchpad
PadStep(st, ramp, i, carSpeed, distanceSquared) ==
    IF distanceSquared > ramp.radius * ramp.radius THEN st
    ELSE RampState(PadCar(st.car, ramp, carSpeed, distanceSquared), TRUE,
                   st.currentRampHeight, i, TRUE,
                   st.launches + (IF ~st.car.isAirborne /\ carSpeed > 500 THEN 1 ELSE 0))

\* "When approaching the ramp, increase the car's speed slightly"
RampNudge(speed, carSpeed, normalizedPos) ==
    IF normalizedPos < 400 /\ carSpeed > 1500 THEN MulDiv(speed, 1010, 1000) ELSE speed

\* a ramp branch that does not look at the car's airborne flag: the
\* launch property below must tell it from the real one
RampCarInFlight(c, ramp, carSpeed, normalizedPos, launch) ==
    IF ~launch
    THEN [c EXCEPT !.position.y = RideHeight + MulDiv(normalizedPos, ramp.height, 1000),
                   !.speed = RampNudge(c.speed, carSpeed, normalizedPos)]
    ELSE [c EXCEPT !.position.y = RideHeight + MulDiv(normalizedPos, ramp.height, 1000),
                   !.isAirborne = TRUE,
                   !.verticalVelocity = MulDiv(Min(ramp.jumpStrength, 2000),
                                               Min(1000, MulDiv(carSpeed, 1000, 3000)), 1000),
                   !.rotation.x = -300,
                   !.speed = IF carSpeed > 3000 THEN 3000
                             ELSE MulDiv(RampNudge(c.speed, carSpeed, normalizedPos), 1100, 1000)]

\* the car after the directional-ramp branch; launch is the jump condition
RampCar(c, ramp, carSpeed, normalizedPos, launch) ==
    IF c.isAirborne THEN c
    ELSE IF ~launch
    THEN [c EXCEPT !.position.y = RideHeight + MulDiv(normalizedPos, ramp.height, 1000),
                   !.speed = RampNudge(c.speed, carSpeed, normalizedPos)]
    ELSE [c EXCEPT !.position.y = RideHeight + MulDiv(normalizedPos, ramp.height, 1000),
                   !.isAirborne = TRUE,
                   !.verticalVelocity = MulDiv(Min(ramp.jumpStrength, 2000),
                                               Min(1000, MulDiv(carSpeed, 1000, 3000)), 1000),
                   !.rotation.x = -300,
                   !.speed = IF carSpeed > 3000 THEN 3000
                             ELSE MulDiv(RampNudge(c.speed, carSpeed, normalizedPos), 1100, 1000)]

\* the directional-ramp branch for a car at normalizedPos along the ramp
OnRamp(st, ramp, i, carSpeed, normalizedPos, launch) ==
    RampState(RampCar(st.car, ramp, carSpeed, normalizedPos, launch), TRUE,
              MulDiv(normalizedPos, ramp.height, 1000), i, FALSE,
              st.launches + (IF launch /\ ~st.car.isAirborne THEN 1 ELSE 0))

\* body of the ramp loop for a directional ramp
RampStep(st, ramp, i, carSpeed, carDirection, rampForward, forwardProjection, rightProjection) ==
    IF ~(/\ 2 * Abs(rightProjection) < ramp.width
         /\ 2 * forwardProjection > -ramp.length
         /\ 2 * forwardProjection < ramp.length)
    THEN st
    ELSE Let(((forwardProjection + ramp.length \div 2) * 1000) \div ramp.length,
             LAMBDA normalizedPos :
                 OnRamp(st, ramp, i, carSpeed, normalizedPos,
                        /\ normalizedPos > 800 /\ carSpeed > 1000
                        /\ VDot(carDirection, rampForward) > 700000))

\* one iteration of for (const ramp of this.ramps)
RampBody(st, ramp, i, carPosition, carDirection, carSpeed) ==
    IF ramp.type = "launchpad" /\ ramp.omnidirectional
    THEN PadStep(st, ramp, i, carSpeed,
                 SatSq(carPosition.x - ramp.position.x)
                 + SatSq(carPosition.z - ramp.position.z))
    ELSE RampStep(st, ramp, i, carSpeed, carDirection,
                  Vec(Sin(ramp.rotation), 0, Cos(ramp.rotation)),
                  TDiv(VDot(VSub(carPosition, ramp.position),
                            Vec(Sin(ramp.rotation), 0, Cos(ramp.rotation))), 1000),
                  TDiv(VDot(VSub(carPosition, ramp.position),
                            Vec(Cos(ramp.rotation), 0, -Sin(ramp.rotation))), 1000))

\* a scan that looks at the entry at i and at no other: the first-match
\* property below must tell it from the real loop
RampLoopHead(st, rs, i, carPosition, carDirection, carSpeed) ==
    IF i > Len(rs) THEN st
    ELSE RampBody(st, rs[i], i, carPosition, carDirection, carSpeed)

RECURSIVE RampLoop(_, _, _, _, _, _)
\* for (const ramp of this.ramps): only the launchpad branch breaks
RampLoop(st, rs, i, carPosition, carDirection, carSpeed) ==
    IF i > Len(rs) \/ st.done THEN st
    ELSE RampLoop(RampBody(st, rs[i], i, carPosition, carDirection, carSpeed),
                  rs, i + 1, carPosition, carDirection, carSpeed)

\* the end of checkRampInteractions: ground height and the car's ramp fields
RampResult(st) ==
    [car |-> [st.car EXCEPT !.position.y = IF ~st.onAnyRamp /\ ~st.car.isAirborne
                                           THEN RideHeight ELSE st.car.position.y,
                            !.onRamp = st.onAnyRamp,
                            !.rampHeight = st.currentRampHeight,
                            !.currentRamp = st.currentRamp],
     launches |-> st.launches]

\* Game.checkRampInteractions()
checkRampInteractions(c, rs) ==
    RampResult(RampLoop(RampState(c, FALSE, 0, 0, FALSE, 0),
                        rs, 1, c.position, c.direction, Abs(c.speed)))

----------------------------------------------------------------------------
(* Dynamic props (City.physicsObjects, Game.updatePhysicsObjects)           *)

\* an entry of City.physicsObjects; pole / light are 0 when absent
Prop(type, pos, rot, mass, radius, height, poleRadius, light) ==
    [type |-> type, position |-> pos, rotation |-> rot,
     originalPosition |-> pos, originalRotation |-> rot,
     velocity |-> ZeroVec, angularVelocity |-> ZeroVec,
     mass |-> mass, radius |-> radius, height |-> height,
     isKnockedOver |-> FALSE, resetTimer |-> 0,
     hasPole |-> poleRadius # 0, poleRadius |-> poleRadius,
     hasLight |-> light # 0, lightIntensity |-> light]

\* City.createBarrel / createCrate / createTrashCan / createStreetlight / createBench
createBarrel(x, z) == Prop("barrel", Vec(x, 100, z), ZeroVec, 40, 100, 200, 0, 0)

\* radius 1.5 * 0.75 = 1.125, kept as 112
createCrate(x, z, rot) == Prop("crate", Vec(x, 75, z), Vec(0, rot, 0), 30, 112, 150, 0, 0)

createTrashCan(x, z) == Prop("trashCan", Vec(x, 100, z), ZeroVec, 20, 80, 200, 0, 0)

createStreetlight(x, z) == Prop("streetlight", Vec(x, 300, z), ZeroVec, 25, 80, 600, 20, 1000)

createBench(x, z, rot) == Prop("bench", Vec(x, 25, z), Vec(0, rot, 0), 35, 120, 50, 0, 0)

\* one threshold for every type: the knock-over property below must tell
\* it from the real switch
knockoverThresholdFlat(type) == 500

\* the switch on obj.type, in units of impact force (speed * 0.5)
knockoverThreshold(type) ==
    CASE type = "trashCan" -> 300
      [] type = "bench" -> 700
      [] type = "streetlight" -> 600
      [] type = "barrel" -> 400
      [] type = "crate" -> 500
      [] OTHER -> 500

\* Game.getRandomSidewalkPosition(); r holds the four Math.random() draws
getRandomSidewalkPosition(r) ==
    IF r.isHorizontal
    THEN Vec(r.along, 100,
             -HalfSize + r.roadIndex * (blockSize + roadWidth)
             + r.side * (roadWidth \div 2 + 150))
    ELSE Vec(-HalfSize + r.roadIndex * (blockSize + roadWidth)
             + r.side * (roadWidth \div 2 + 150),
             100, r.along)

\* the trash-can branch of resetPhysicsObject, moving to newPosition
Relocate(obj, newPosition) ==
    [obj EXCEPT !.originalPosition = newPosition,
                !.position = newPosition,
                !.rotation = obj.originalRotation,
                !.velocity = ZeroVec,
                !.angularVelocity = ZeroVec,
                !.isKnockedOver = FALSE]

\* a reset that stands every prop upright at rotation zero: the reset
\* property below must tell it from the real one
resetUpright(obj, r) ==
    [obj EXCEPT !.position = obj.originalPosition,
                !.rotation = ZeroVec,
                !.velocity = ZeroVec,
                !.angularVelocity = ZeroVec,
                !.isKnockedOver = FALSE]

\* a reset that also clears the timer: the timer property below must tell
\* it from the real one
resetClearsTimer(obj, r) ==
    IF obj.type = "trashCan"
    THEN [Relocate(obj, getRandomSidewalkPosition(r)) EXCEPT !.resetTimer = 0]
    ELSE [obj EXCEPT !.position = obj.originalPosition,
                     !.rotation = obj.originalRotation,
                     !.velocity = ZeroVec,
                     !.angularVelocity = ZeroVec,
                     !.isKnockedOver = FALSE,
                     !.resetTimer = 0,
                     !.lightIntensity = IF obj.type = "streetlight" /\ obj.hasLight
                                        THEN 1000 ELSE obj.lightIntensity]

\* Game.resetPhysicsObject(obj)
resetPhysicsObject(obj, r) ==
    IF obj.type = "trashCan"
    THEN Relocate(obj, getRandomSidewalkPosition(r))
    ELSE [obj EXCEPT !.position = obj.originalPosition,
                     !.rotation = obj.originalRotation,
                     !.velocity = ZeroVec,
                     !.angularVelocity = ZeroVec,
                     !.isKnockedOver = FALSE,
                     !.lightIntensity = IF obj.type = "streetlight" /\ obj.hasLight
                                        THEN 1000 ELSE obj.lightIntensity]

\* the collision test of an upright prop against the car
PropCollision(obj, carPosition) ==
    \/ DistLT(carPosition, obj.position, boundingRadius + obj.radius)
    \/ /\ obj.type = "streetlight" /\ obj.hasPole
       /\ SatSq(carPosition.x - obj.position.x) + SatSq(carPosition.z - obj.position.z)
            < (boundingRadius + obj.poleRadius) * (boundingRadius + obj.poleRadius)

\* collision and impactForce > knockoverThreshold
Knocks(obj, carPosition, carSpeed) ==
    PropCollision(obj, carPosition) /\ 2 * knockoverThreshold(obj.type) < carSpeed

\* impulseDirection: towards the prop, y forced to 0.5, normalized again
ImpulseDirection(toward) == VNormalize(Vec(toward.x, 500, toward.z))

\* the barrel / crate adjustments of the velocity v0 given to a prop
TypeVelocity(type, v0) ==
    IF type = "barrel" THEN Vec(v0.x, v0.y + 200, v0.z)
    ELSE IF type = "crate"
    THEN Vec(MulDiv(v0.x, 1500, 1000), MulDiv(v0.y, 700, 1000), MulDiv(v0.z, 1500, 1000))
    ELSE v0

\* velocity given to a prop that is knocked over
KnockVelocity(obj, carPosition, carSpeed, carDirection) ==
    TypeVelocity(obj.type,
                 VAdd(VScale(carDirection, MulDiv(carSpeed, 300, 1000), 1000),
                      VScale(ImpulseDirection(VNormalize(VSub(obj.position, carPosition))),
                             carSpeed \div 2, 1000)))

\* the addScore calls of one knock-over: 50, plus 75 for a barrel and 60
\* for a crate unless the prop took the streetlight branch
KnockPoints(obj) ==
    50 + (IF obj.type = "streetlight" /\ obj.hasLight THEN 0
          ELSE IF obj.type = "barrel" THEN 75
          ELSE IF obj.type = "crate" THEN 60 ELSE 0)

\* the prop after it is knocked over; the first call of Game.flickerLight's
\* flicker() runs inside the tick
Knocked(obj, carPosition, carSpeed, carDirection, rnd) ==
    [obj EXCEPT !.isKnockedOver = TRUE,
                !.velocity = KnockVelocity(obj, carPosition, carSpeed, carDirection),
                !.angularVelocity = rnd.angular,
                !.lightIntensity = IF obj.type = "streetlight" /\ obj.hasLight
                                   THEN MulDiv(obj.lightIntensity, rnd.flicker, 1000)
                                   ELSE obj.lightIntensity]

\* the branch of updatePhysicsObjects for a prop that is not knocked over
KnockProp(obj, c, carPosition, carSpeed, carDirection, rnd) ==
    IF ~Knocks(obj, carPosition, carSpeed) THEN [obj |-> obj, car |-> c, points |-> 0]
    ELSE [obj |-> Knocked(obj, carPosition, carSpeed, carDirection, rnd),
          car |-> [c EXCEPT !.speed = MulDiv(c.speed, 1000 - Min(800, obj.mass * 10), 1000)],
          points |-> KnockPoints(obj)]

\* y component of Vector3(0,1,0).applyEuler(rotation), 1 when upright
UpFactor(rot) ==
    MulDiv(Cos(rot.x), Cos(rot.z), 1000)
    - MulDiv(MulDiv(Sin(rot.x), Sin(rot.y), 1000), Sin(rot.z), 1000)

\* rotation after the angular step; the quaternion product is taken
\* component-wise
Spin(obj, dt) ==
    Vec(WrapAngle(obj.rotation.x + MulDiv(obj.angularVelocity.x, dt, 1000)),
        WrapAngle(obj.rotation.y + MulDiv(obj.angularVelocity.y, dt, 1000)),
        WrapAngle(obj.rotation.z + MulDiv(obj.angularVelocity.z, dt, 1000)))

\* "Check for ground collision": position, velocity and angular velocity
Grounded(obj, p) == 2 * p.y - obj.height < 0

GroundPosition(obj, p) == IF Grounded(obj, p) THEN Vec(p.x, obj.height \div 2, p.z) ELSE p

GroundVelocity(obj, p, v) ==
    IF ~Grounded(obj, p) THEN v
    ELSE IF Abs(v.y) > 50
    THEN Vec(MulDiv(v.x, 900, 1000), MulDiv(-v.y, 300, 1000), MulDiv(v.z, 900, 1000))
    ELSE Vec(v.x, 0, v.z)

GroundSpin(obj, p) ==
    IF Grounded(obj, p) THEN VScale(obj.angularVelocity, 900, 1000) ELSE obj.angularVelocity

\* a settled barrel rolls: angular velocity about the axis across its motion
RollSpin(obj, p, v, w, horizontalSpeed) ==
    IF /\ obj.type = "barrel" /\ 2 * p.y = obj.height /\ Abs(v.y) <= 50
       /\ horizontalSpeed > 10
    THEN Let(VNormalize(Vec(v.x, 0, v.z)), LAMBDA movementDir :
             VScale(Vec(-movementDir.z, 0, movementDir.x), horizontalSpeed, 50))
    ELSE w

\* a streetlight dims with the angle of its pole
Dimmed(obj, rot) ==
    IF obj.type = "streetlight" /\ obj.hasLight
    THEN Max(0, (UpFactor(rot) + 1000) \div 2)
    ELSE obj.lightIntensity

\* the prop after drag, with position p, rotation rot, velocity v, spin w
Dragged(obj, p, rot, v, w) ==
    [obj EXCEPT !.position = p, !.rotation = rot, !.velocity = v,
                !.angularVelocity = RollSpin(obj, p, v, w, VLen(Vec(v.x, 0, v.z))),
                !.lightIntensity = Dimmed(obj, rot)]

\* the prop after the motion step took it to p0 with velocity vg
Landed(obj, p0, vg, dt) ==
    Dragged(obj, GroundPosition(obj, p0), Spin(obj, dt),
            VScale(GroundVelocity(obj, p0, vg), 980, 1000),
            VScale(GroundSpin(obj, p0), 980, 1000))

\* position.add(velocity * deltaTime); the height is rounded down, so
\* that a prop on the ground with a downward velocity is below it
Displaced(p, v, dt) ==
    Vec(p.x + MulDiv(v.x, dt, 1000), p.y + (v.y * dt) \div 1000, p.z + MulDiv(v.z, dt, 1000))

\* the prop falling with velocity vg
Falling(obj, vg, dt) == Landed(obj, Displaced(obj.position, vg, dt), vg, dt)

\* the branch of updatePhysicsObjects for a knocked-over prop, up to the
\* reset decision: gravity, motion, ground bounce, drag, per-type effects
MoveProp(obj, dt) ==
    Falling(obj, Vec(obj.velocity.x, obj.velocity.y - MulDiv(gravity, dt, 1000),
                     obj.velocity.z), dt)

\* isAtRest / isOutOfBounds of a prop after its motion step
IsAtRest(obj) == VLenSq(obj.velocity) < 100 /\ VLenSq(obj.angularVelocity) < 10000

IsOutOfBounds(obj) == Abs(obj.position.x) > 50000 \/ Abs(obj.position.z) > 50000

ResetEligible(obj, timer) == IsAtRest(obj) \/ IsOutOfBounds(obj) \/ timer > 60000

\* a guard that lets every eligible prop be reset: the reset-distance
\* property below must tell it from the real one
ResetAlways(carPosition, obj) == TRUE

\* the condition guarding the call of resetPhysicsObject
ResetAllowed(carPosition, obj) ==
    DistGT(carPosition, obj.position, 5000) \/ IsOutOfBounds(obj)

\* a decision that lets the timer stand: the eventual-reset property below
\* must tell it from the real one
ResetOrStall(obj, moved, carPosition, dt, rnd) ==
    IF ResetEligible(moved, obj.resetTimer)
    THEN IF ResetAllowed(carPosition, moved)
         THEN resetPhysicsObject(moved, rnd.sidewalk)
         ELSE moved
    ELSE moved

\* "Reset objects that have come to rest (or after a certain time)" for the
\* prop obj whose motion step gave moved
ResetOrTime(obj, moved, carPosition, dt, rnd) ==
    IF ResetEligible(moved, obj.resetTimer)
    THEN IF ResetAllowed(carPosition, moved)
         THEN resetPhysicsObject(moved, rnd.sidewalk)
         ELSE moved
    ELSE [moved EXCEPT !.resetTimer = obj.resetTimer + dt]

\* the state of the prop loop: awarded[i] is the score added by prop i,
\* moved[i] its position when the reset decision was taken
PropState(c, ps, sc, awarded, moved, resets) ==
    [car |-> c, props |-> ps, score |-> sc, awarded |-> awarded, moved |-> moved,
     resets |-> resets]

\* the loop body for an upright prop, k being the result of KnockProp
Upright(st, i, k) ==
    PropState(k.car, [st.props EXCEPT ![i] = k.obj], st.score + k.points,
              Append(st.awarded, k.points), Append(st.moved, st.props[i].position),
              Append(st.resets, FALSE))

\* the loop body for a knocked-over prop whose motion step gave moved
Toppled(st, i, moved, carPosition, dt, rnd) ==
    PropState(st.car,
              [st.props EXCEPT ![i] = ResetOrTime(st.props[i], moved, carPosition, dt, rnd)],
              st.score, Append(st.awarded, 0), Append(st.moved, moved.position),
              Append(st.resets, ResetEligible(moved, st.props[i].resetTimer)
                                /\ ResetAllowed(carPosition, moved)))

\* a loop body that reads the car's speed anew for every prop: the
\* knock-over property below must tell it from the real one
PropBodyFresh(st, i, carPosition, carSpeed, carDirection, dt, rnd) ==
    IF ~st.props[i].isKnockedOver
    THEN Upright(st, i, KnockProp(st.props[i], st.car, carPosition, Abs(st.car.speed),
                                  carDirection, rnd))
    ELSE Toppled(st, i, MoveProp(st.props[i], dt), carPosition, dt, rnd)

\* one iteration of for (const obj of this.city.getPhysicsObjects())
PropBody(st, i, carPosition, carSpeed, carDirection, dt, rnd) ==
    IF ~st.props[i].isKnockedOver
    THEN Upright(st, i, KnockProp(st.props[i], st.car, carPosition, carSpeed,
                                  carDirection, rnd))
    ELSE Toppled(st, i, MoveProp(st.props[i], dt), carPosition, dt, rnd)

RECURSIVE PropLoop(_, _, _, _, _, _, _)
PropLoop(st, i, carPosition, carSpeed, carDirection, dt, rnd) ==
    IF i > Len(st.props) THEN st
    ELSE PropLoop(PropBody(st, i, carPosition, carSpeed, carDirection, dt, rnd),
                  i + 1, carPosition, carSpeed, carDirection, dt, rnd)

\* Game.updatePhysicsObjects(deltaTime)
updatePhysicsObjects(c, ps, sc, dt, rnd) ==
    PropLoop(PropState(c, ps, sc, <<>>, <<>>, <<>>),
             1, c.position, Abs(c.speed), c.direction, dt, rnd)

----------------------------------------------------------------------------
(* Pedestrians (City.humans, Game.updateHumans)                             *)

\* an entry of City.humans made by createHuman; walkSpeed in [2, 4),
\* fleeSpeed in [5, 8) are drawn at creation
createHuman(x, z, walkHorizontal, rot, walkSpeed, fleeSpeed) ==
    [position |-> Vec(x, 0, z), velocity |-> ZeroVec, rotation |-> rot,
     walkSpeed |-> walkSpeed, walkHorizontal |-> walkHorizontal,
     state |-> "walking", runningFrom |-> ZeroVec, fleeSpeed |-> fleeSpeed,
     detectionRadius |-> 1500, pointValue |-> 100, isDead |-> FALSE,
     boundingRadius |-> 40]

\* JavaScript's % : the remainder takes the sign of the dividend
JsMod(a, m) == IF a >= 0 THEN a % m ELSE -((-a) % m)

\* "Check against boundary obstacles" of updateHumans / updateWalkingHuman
HitsBoundaryObstacle(h, newPosition, obs) ==
    \E i \in 1..Len(obs) :
        /\ obs[i].type = "boundary"
        /\ DistLT(newPosition, obs[i].position, h.boundingRadius + obs[i].boundingRadius)

\* |x| or |z| beyond halfBounds - boundaryBuffer
AtBoundary(p) == Abs(p.x) > HalfSize - 500 \/ Abs(p.z) > HalfSize - 500

\* the pedestrian heading along velocity v
Heading(h, v) == [h EXCEPT !.velocity = v, !.rotation = Atan2(v.x, v.z)]

\* "If no direction, assign a new random direction"
PickDirection(h, coin) ==
    IF VLenSq(h.velocity) >= 100 THEN h
    ELSE Heading(h, IF h.walkHorizontal
                    THEN Vec((IF coin THEN 1 ELSE -1) * h.walkSpeed, 0, 0)
                    ELSE Vec(0, 0, (IF coin THEN 1 ELSE -1) * h.walkSpeed))

\* the walking step towards newPosition: turn back, turn at random, or move
WalkStep(h, newPosition, obs, rnd) ==
    IF AtBoundary(newPosition)
    THEN Heading(h, VScale(VNormalize(VSub(ZeroVec, h.position)), h.walkSpeed, 1000))
    ELSE IF HitsBoundaryObstacle(h, newPosition, obs) \/ rnd.turn
    THEN Heading(h, VScale(Vec(Sin(rnd.angle), 0, Cos(rnd.angle)), h.walkSpeed, 1000))
    ELSE [h EXCEPT !.position = Vec(newPosition.x, 0, newPosition.z)]

\* Game.updateWalkingHuman(human, deltaTime)
updateWalkingHuman(h0, dt, obs, rnd) ==
    Let(PickDirection(h0, rnd.coin), LAMBDA h :
        WalkStep(h, VAdd(h.position, VScale(h.velocity, dt, 1000)), obs, rnd))

\* the direction along the boundary, away from the car
TangentDir(h, newPosition, carPosition) ==
    IF Abs(newPosition.x) > HalfSize - 500
    THEN Vec(0, 0, -Sign(carPosition.z - h.position.z))
    ELSE Vec(-Sign(carPosition.x - h.position.x), 0, 0)

\* the smooth turn of a fleeing pedestrian towards targetAngle
TurnTowards(rotation, targetAngle, dt) ==
    rotation + MulDiv((JsMod(targetAngle - rotation + PiMilli, TwoPiMilli) - PiMilli) * 5,
                      dt, 1000)

\* velocity and position of the flee step at the boundary
FleeAlong(h, tangentVelocity, rot, dt) ==
    [h EXCEPT !.velocity = tangentVelocity,
              !.position = Vec(h.position.x + MulDiv(tangentVelocity.x, dt, 1000), 0,
                               h.position.z + MulDiv(tangentVelocity.z, dt, 1000)),
              !.rotation = rot]

\* the flee step with velocity v0 towards newPosition
FleeMove(h, v0, newPosition, rot, carPosition, dt, obs) ==
    IF AtBoundary(newPosition)
    THEN FleeAlong(h, VScale(TangentDir(h, newPosition, carPosition), h.fleeSpeed, 1), rot, dt)
    ELSE [h EXCEPT !.velocity = v0,
                   !.position = IF HitsBoundaryObstacle(h, newPosition, obs)
                                THEN Vec(h.position.x, 0, h.position.z)
                                ELSE Vec(newPosition.x, 0, newPosition.z),
                   !.rotation = rot]

\* the flee step along fleeDirection with velocity v0
FleeTo(h, fleeDirection, v0, carPosition, dt, obs) ==
    FleeMove(h, v0, VAdd(h.position, VScale(v0, dt, 1000)),
             TurnTowards(h.rotation, Atan2(fleeDirection.x, fleeDirection.z), dt),
             carPosition, dt, obs)

\* the fleeing branch of updateHumans while the car is within 1.5 x radius
FleeStep(h, carPosition, dt, obs) ==
    Let(VNormalize(VSub(h.position, carPosition)), LAMBDA fleeDirection :
        FleeTo(h, fleeDirection, VScale(fleeDirection, h.fleeSpeed, 1000),
               carPosition, dt, obs))

\* a killHuman that sets the isDead flag and leaves the state field: the
\* kill property below must tell it from the real one
killHumanFlagOnly(h) == [h EXCEPT !.isDead = TRUE]

\* Game.killHuman(human, impactDirection): the state it changes
killHuman(h) ==
    IF h.isDead THEN h ELSE [h EXCEPT !.isDead = TRUE, !.state = "dead"]

\* a.distanceTo(b) > 500 (maxAIProcessingDistance), on a 0.1 unit grid
BeyondAIDistance(a, b) == VLenSq(VScale(VSub(a, b), 1, 10)) > 5000 * 5000

\* detection at half the radius, and a flee band no wider than the
\* detection radius: the transition properties below must tell them from
\* the real tests
StartsFleeingHalf(h, carPosition) ==
    DistLT(h.position, carPosition, h.detectionRadius \div 2)

KeepsFleeingNarrow(h, carPosition) ==
    DistLT(h.position, carPosition, h.detectionRadius)

\* distanceToCar < human.detectionRadius
StartsFleeing(h, carPosition) == DistLT(h.position, carPosition, h.detectionRadius)

\* distanceToCar < human.detectionRadius * 1.5
KeepsFleeing(h, carPosition) ==
    DistLT(h.position, carPosition, (3 * h.detectionRadius) \div 2)

\* distanceToCar < carRadius + human.boundingRadius and carSpeed > 5
IsHit(h, carPosition, carSpeed) ==
    DistLT(h.position, carPosition, boundingRadius + h.boundingRadius) /\ carSpeed > 500

\* "Full AI logic for nearby humans"
FullAI(h, carPosition, dt, obs, rnd) ==
    IF h.state = "walking"
    THEN IF StartsFleeing(h, carPosition)
         THEN [h EXCEPT !.state = "fleeing", !.runningFrom = carPosition]
         ELSE updateWalkingHuman(h, dt, obs, rnd)
    ELSE IF h.state = "fleeing"
    THEN IF KeepsFleeing(h, carPosition)
         THEN FleeStep(h, carPosition, dt, obs)
         ELSE [h EXCEPT !.state = "walking", !.velocity = ZeroVec]
    ELSE h

\* the forEach body of Game.updateHumans for a living pedestrian put on the
\* ground; points is what addScore receives
Living(h, carPosition, carSpeed, dt, obs, rnd) ==
    IF IsHit(h, carPosition, carSpeed)
    THEN [human |-> killHuman(h), points |-> h.pointValue]
    ELSE IF BeyondAIDistance(h.position, carPosition)
    THEN [human |-> h, points |-> 0]
    ELSE [human |-> FullAI(h, carPosition, dt, obs, rnd), points |-> 0]

\* a forEach body without the test for pedestrians already dead: the score
\* property below must tell it from the real one
UpdateHumanDeadToo(h0, carPosition, carSpeed, dt, obs, rnd) ==
    Living([h0 EXCEPT !.position.y = 0], carPosition, carSpeed, dt, obs, rnd)

\* the forEach body of Game.updateHumans
UpdateHuman(h0, carPosition, carSpeed, dt, obs, rnd) ==
    IF h0.isDead THEN [human |-> h0, points |-> 0]
    ELSE Living([h0 EXCEPT !.position.y = 0], carPosition, carSpeed, dt, obs, rnd)

RECURSIVE SumPoints(_, _)
\* the points the first i pedestrians added to the score
SumPoints(r, i) == IF i = 0 THEN 0 ELSE SumPoints(r, i - 1) + r[i].points

\* an updateHumans that works from the position the car had when the
\* frame began: the ordering property below must tell it from the real one
updateHumansStale(hs, c, sc, dt, obs, rnd) ==
    Let([i \in 1..Len(hs) |->
            UpdateHuman(hs[i], c.lastValidPosition, Abs(c.speed), dt, obs, rnd)],
        LAMBDA r : [humans |-> [i \in 1..Len(hs) |-> r[i].human],
                    score |-> sc + SumPoints(r, Len(hs))])

\* Game.updateHumans(deltaTime)
updateHumans(hs, c, sc, dt, obs, rnd) ==
    Let([i \in 1..Len(hs) |-> UpdateHuman(hs[i], c.position, Abs(c.speed), dt, obs, rnd)],
        LAMBDA r : [humans |-> [i \in 1..Len(hs) |-> r[i].human],
                    score |-> sc + SumPoints(r, Len(hs))])

----------------------------------------------------------------------------
(* Game.update                                                              *)

\* what one frame saw, kept for the properties: the collision step of
\* Car.update (resolved: the car after the collision handling, updated:
\* the car as Car.update left it, entered: the car as it came to
\* checkRampInteractions), what later stages did, and the state each
\* pedestrian was in when the frame began
Event(cu, ab, eb, rr, pp, hs, dt) ==
    [collided |-> cu.collided, obstacle |-> cu.obstacle,
     impactSpeed |-> cu.impactSpeed, dirBefore |-> cu.dirBefore,
     from |-> cu.from,
     airborneBefore |-> cu.airborneBefore, fallSpeedBefore |-> cu.fallSpeedBefore,
     resolved |-> [speed |-> cu.resolved.speed,
                   direction |-> cu.resolved.direction,
                   position |-> cu.resolved.position,
                   rotation |-> cu.resolved.rotation,
                   isAirborne |-> cu.resolved.isAirborne,
                   verticalVelocity |-> cu.resolved.verticalVelocity],
     updated |-> [position |-> cu.car.position,
                  rotation |-> cu.car.rotation,
                  isAirborne |-> cu.car.isAirborne,
                  verticalVelocity |-> cu.car.verticalVelocity,
                  onRamp |-> cu.car.onRamp,
                  isDrifting |-> cu.car.isDrifting],
     entered |-> [position |-> eb.position, direction |-> eb.direction,
                  speed |-> eb.speed, isAirborne |-> eb.isAirborne,
                  verticalVelocity |-> eb.verticalVelocity],
     carUpdateSpeed |-> cu.car.speed,
     boosted |-> ab.applied,
     boundary |-> eb # ab.car,
     nudged |-> rr.car.speed # eb.speed,
     propSpeed |-> Abs(rr.car.speed),
     awarded |-> pp.awarded, moved |-> pp.moved, resets |-> pp.resets,
     was |-> [i \in 1..Len(hs) |-> hs[i].state],
     keys |-> NoKeys,
     key |-> "none",
     deltaTime |-> dt]

NoEvent ==
    [collided |-> FALSE, obstacle |-> 0, impactSpeed |-> 0, dirBefore |-> ZeroVec,
     from |-> ZeroVec, airborneBefore |-> FALSE, fallSpeedBefore |-> 0,
     resolved |-> [speed |-> 0, direction |-> ZeroVec, position |-> ZeroVec,
                   rotation |-> ZeroVec, isAirborne |-> FALSE, verticalVelocity |-> 0],
     updated |-> [position |-> ZeroVec, rotation |-> ZeroVec, isAirborne |-> FALSE,
                  verticalVelocity |-> 0, onRamp |-> FALSE, isDrifting |-> FALSE],
     entered |-> [position |-> ZeroVec, direction |-> ZeroVec, speed |-> 0,
                  isAirborne |-> FALSE, verticalVelocity |-> 0],
     carUpdateSpeed |-> 0, boosted |-> FALSE, boundary |-> FALSE, nudged |-> FALSE,
     propSpeed |-> 0, awarded |-> <<>>, moved |-> <<>>, resets |-> <<>>,
     was |-> <<>>, keys |-> NoKeys, key |-> "none", deltaTime |-> 0]

\* the end of Game.update: updateHumans, and the state the frame leaves
Finish(cu, ab, eb, rr, pp, hs, hh, dt) ==
    [car |-> pp.car, boost |-> ab.boost, score |-> hh.score,
     physicsObjects |-> pp.props, humans |-> hh.humans,
     ev |-> Event(cu, ab, eb, rr, pp, hs, dt)]

\* Game.update from checkRampInteractions on
World(cu, ab, eb, rr, sc, ps, hs, obs, dt, rnd) ==
    Let(updatePhysicsObjects(rr.car, ps, sc, dt, rnd), LAMBDA pp :
        Finish(cu, ab, eb, rr, pp, hs,
               updateHumans(hs, pp.car, pp.score, dt, obs, rnd), dt))

\* Game.update from the boost step on
Boundary(cu, ab, sc, ps, hs, obs, rs, dt, rnd) ==
    Let(EnforceBoundary(ab.car), LAMBDA eb :
        World(cu, ab, eb, checkRampInteractions(eb, rs), sc, ps, hs, obs, dt, rnd))

\* Game.update(): one frame with deltaTime dt, the keys held, the
\* Math.random() draws rnd of the frame and its wall-clock time now
GameUpdate(c, b, sc, ps, hs, obs, rs, keys, dt, rnd, now) ==
    Let(CarUpdate(c, keys, dt, obs, now), LAMBDA cu :
        Boundary(cu, ApplyBoost(cu.car, updateBoost(b, dt), dt),
                 sc, ps, hs, obs, rs, dt, rnd))

----------------------------------------------------------------------------
(* State                                                                    *)

VARIABLES
    car,             \* Game.car
    boost,           \* Game.boost
    score,           \* Game.score
    physicsObjects,  \* City.physicsObjects
    humans,          \* City.humans
    obstacles,       \* City.obstacles
    ramps,           \* City.ramps
    time,            \* sum of the frames' deltaTime, ms
    ticks,           \* frames run
    ev               \* what the last frame saw

vars == <<car, boost, score, physicsObjects, humans, obstacles, ramps, time, ticks, ev>>

----------------------------------------------------------------------------
(* The city the constructor builds                                          *)

\* City.createTree(x, z)
createTree(x, z) == Obstacle("tree", Vec(x, 0, z), 150, 0, 0, 0)

\* segment i (0..10) of the west row of boundary buildings, of the given
\* height: 210 / 11 units long, 10 wide, centred on x = -100
WestSegment(i, height) ==
    Obstacle("boundary",
             Vec(-HalfSize - 500, height \div 2, -10500 + (i * 21000 + 10500) \div 11),
             955, 1000, 1909, 0)

\* the invisible wall behind the west row: 10 x 1000 x 230, centred on x = -110
InvisibleWestWall ==
    Obstacle("boundary", Vec(-HalfSize - 1000 - 500, 50000, 0), 11500, 1000, 23000, 0)

\* City.createLaunchpad(x, z)
createLaunchpad(x, z) == Launchpad(Vec(x, 30, z), 600, 30, 1400)

\* the launchpads addStuntRamps puts into the three open spaces
CityRamps ==
    <<createLaunchpad(4800, 0), createLaunchpad(-2400, 4157),
      createLaunchpad(-2400, -4157), createLaunchpad(-4100, 5700),
      createLaunchpad(7700, -5700)>>

\* the car after Game.positionCarOnRoad(): on the middle horizontal road
SpawnCar ==
    [NewCar EXCEPT !.position = Vec(0, RideHeight, -HalfSize + (blockSize + roadWidth)),
                   !.rotation = Vec(0, -HalfPiMilli, 0),
                   !.direction = ForwardOf(Vec(0, -HalfPiMilli, 0))]

\* the Math.random() draws of one frame: the spin given to a prop that is
\* knocked over, the first flicker factor, the draws of
\* getRandomSidewalkPosition, and the draws of updateWalkingHuman
Rand(angular, flicker, sidewalk, coin, turn, angle) ==
    [angular |-> angular, flicker |-> flicker, sidewalk |-> sidewalk,
     coin |-> coin, turn |-> turn, angle |-> angle]

Sidewalk(isHorizontal, roadIndex, side, along) ==
    [isHorizontal |-> isHorizontal, roadIndex |-> roadIndex, side |-> side,
     along |-> along]

Draws ==
    {Rand(Vec(2000, -1000, 500), 1200, Sidewalk(TRUE, 1, 1, -2000), TRUE, FALSE, 0),
     Rand(Vec(-2400, 300, 2400), 1499, Sidewalk(FALSE, 3, -1, 4000), FALSE, TRUE, 2094)}

----------------------------------------------------------------------------
(* Frames and key handlers                                                  *)

MaxTicks == 3

\* the state a frame leaves behind
Apply(g, dt) ==
    /\ car' = g.car
    /\ boost' = g.boost
    /\ score' = g.score
    /\ physicsObjects' = g.physicsObjects
    /\ humans' = g.humans
    /\ ev' = g.ev
    /\ time' = time + dt
    /\ ticks' = ticks + 1
    /\ UNCHANGED <<obstacles, ramps>>

\* the frame's result with the keys that were held during it on record
Held(g, keys) == [g EXCEPT !.ev.keys = keys]

\* requestAnimationFrame -> Game.update()
Frame(dt, keys, rnd) ==
    Apply(Held(GameUpdate(car, boost, score, physicsObjects, humans, obstacles,
                          ramps, keys, dt, rnd, time + dt), keys), dt)

\* frame lengths: the first frame after Game.start() has deltaTime 0
DeltaTimes == {0, 100, 500}

Keys == {NoKeys, KeyState(TRUE, FALSE, FALSE, FALSE),
         KeyState(FALSE, TRUE, FALSE, FALSE), KeyState(TRUE, FALSE, TRUE, FALSE)}

Tick ==
    /\ ticks < MaxTicks
    /\ \E dt \in DeltaTimes, keys \in Keys, rnd \in Draws : Frame(dt, keys, rnd)

\* keydown ' ' of Game.setupKeyListeners
BoostKeyDown ==
    /\ boost.available > 0
    /\ boost' = [boost EXCEPT !.active = TRUE]
    /\ UNCHANGED <<car, score, physicsObjects, humans, obstacles, ramps, time, ticks, ev>>

\* keyup ' ' of Game.setupKeyListeners
BoostKeyUp ==
    /\ boost' = [boost EXCEPT !.active = FALSE]
    /\ UNCHANGED <<car, score, physicsObjects, humans, obstacles, ramps, time, ticks, ev>>

\* new Game(): the city near the spawn point.  Props and pedestrians are
\* placed at random inside the central open space; these are on the road
\* ahead of the car.
Init ==
    /\ car = SpawnCar
    /\ boost = NewBoost
    /\ score = 0
    /\ physicsObjects = <<createStreetlight(-1200, -3500), createCrate(-3000, -3600, 0)>>
    /\ humans = <<createHuman(-2000, -3400, TRUE, 0, 300, 600)>>
    /\ obstacles = <<createTree(2980, -3500), WestSegment(3, 2000), InvisibleWestWall>>
    /\ ramps = CityRamps
    /\ time = 0
    /\ ticks = 0
    /\ ev = NoEvent

Next == Tick \/ BoostKeyDown \/ BoostKeyUp

Spec == Init /\ [][Next]_vars

----------------------------------------------------------------------------
(* Scenario: a new car accelerating on open ground (Car.update alone)       *)

MaxAccelTicks == 5

AccelDeltaTimes == {0, 100, 200, 500, 1000}

Forward == KeyState(TRUE, FALSE, FALSE, FALSE)

InitAccel ==
    /\ car = NewCar
    /\ boost = NewBoost
    /\ score = 0
    /\ physicsObjects = <<>>
    /\ humans = <<>>
    /\ obstacles = <<>>
    /\ ramps = <<>>
    /\ time = 0
    /\ ticks = 0
    /\ ev = NoEvent

\* car.update(inputHandler, deltaTime, []) with the forward key held
AccelTick ==
    /\ ticks < MaxAccelTicks
    /\ \E dt \in AccelDeltaTimes :
          /\ car' = CarUpdate(car, Forward, dt, obstacles, time + dt).car
          /\ time' = time + dt
          /\ ev' = [NoEvent EXCEPT !.deltaTime = dt]
    /\ ticks' = ticks + 1
    /\ UNCHANGED <<boost, score, physicsObjects, humans, obstacles, ramps>>

SpecAccel == InitAccel /\ [][AccelTick]_vars

----------------------------------------------------------------------------
(* Scenario: the space bar pressed and released between the frames of a car *)
(* standing at the spawn point                                              *)

MaxBoostTicks == 4

\* 4 s drains a full meter in one frame
BoostDeltaTimes == {0, 500, 1500, 4000}

\* event.key of the key events: the space bar and the night-mode key
EventKeys == {" ", "n"}

InitBoost ==
    /\ car = SpawnCar
    /\ boost = NewBoost
    /\ score = 0
    /\ physicsObjects = <<>>
    /\ humans = <<>>
    /\ obstacles = <<createTree(2980, -3500)>>
    /\ ramps = CityRamps
    /\ time = 0
    /\ ticks = 0
    /\ ev = NoEvent

\* a frame with no driving key held
BoostTick ==
    /\ ticks < MaxBoostTicks
    /\ \E dt \in BoostDeltaTimes, rnd \in Draws : Frame(dt, NoKeys, rnd)

\* a listener that takes every press of the space bar: the boost property
\* below must tell it from the real one
keydownAlways(b, key) == IF key = " " THEN [b EXCEPT !.active = TRUE] ELSE b

\* the keydown listener of Game.setupKeyListeners
keydown(b, key) == IF key = " " /\ b.available > 0 THEN [b EXCEPT !.active = TRUE] ELSE b

\* the keyup listener of Game.setupKeyListeners
keyup(b, key) == IF key = " " THEN [b EXCEPT !.active = FALSE] ELSE b

KeyDown ==
    /\ \E key \in EventKeys :
          /\ boost' = keydown(boost, key)
          /\ ev' = [ev EXCEPT !.key = key]
    /\ UNCHANGED <<car, score, physicsObjects, humans, obstacles, ramps, time, ticks>>

KeyUp ==
    /\ \E key \in EventKeys :
          /\ boost' = keyup(boost, key)
          /\ ev' = [ev EXCEPT !.key = "none"]
    /\ UNCHANGED <<car, score, physicsObjects, humans, obstacles, ramps, time, ticks>>

NextBoost == BoostTick \/ KeyDown \/ KeyUp

SpecBoost == InitBoost /\ [][NextBoost]_vars
----------------------------------------------------------------------------
(* Scenario: driving at the west boundary wall and at a tree                *)

MaxCrashTicks == 3

CrashDeltaTimes == {100, 500, 600}

CrashKeys == {NoKeys, Forward, KeyState(FALSE, TRUE, FALSE, FALSE)}

\* a car on the ground at (x, z) with yaw rotation.y and the given speed
CarAt(x, z, yaw, speed) ==
    [NewCar EXCEPT !.position = Vec(x, RideHeight, z),
                   !.lastValidPosition = Vec(x, RideHeight, z),
                   !.rotation = Vec(0, yaw, 0),
                   !.direction = ForwardOf(Vec(0, yaw, 0)),
                   !.velocity = VScale(ForwardOf(Vec(0, yaw, 0)), speed, 1000),
                   !.speed = speed]

\* a car in flight at height y with vertical velocity vv
Flying(c, y, vv) ==
    [c EXCEPT !.position.y = y, !.lastValidPosition.y = y,
              !.isAirborne = TRUE, !.verticalVelocity = vv]

\* the car heading for the middle of the west wall, forwards and in
\* reverse, and reversing towards a tree
CrashCars ==
    {CarAt(-8500, 0, -HalfPiMilli, 2480),
     CarAt(-8400, 0, HalfPiMilli, -2000),
     CarAt(2400, -3500, -HalfPiMilli, -2000)}

\* createBoundary draws each segment's height from [15, 25)
WallHeights == {1500, 2000}

InitCrash ==
    /\ car \in CrashCars
    /\ boost = NewBoost
    /\ score = 0
    /\ physicsObjects = <<>>
    /\ humans = <<>>
    /\ \E h \in WallHeights :
          obstacles = <<createTree(2980, -3500), WestSegment(4, h), WestSegment(5, h),
                        WestSegment(6, h), InvisibleWestWall>>
    /\ ramps = <<>>
    /\ time = 0
    /\ ticks = 0
    /\ ev = NoEvent

CrashTick ==
    /\ ticks < MaxCrashTicks
    /\ \E dt \in CrashDeltaTimes, keys \in CrashKeys, rnd \in Draws : Frame(dt, keys, rnd)

SpecCrash == InitCrash /\ [][CrashTick]_vars

----------------------------------------------------------------------------
(* Scenario: steering at drift speed towards a tree, onto a launchpad and   *)
(* out of a flight                                                          *)

MaxDriftTicks == 3

DriftDeltaTimes == {100, 250}

DriftKeys == {NoKeys, KeyState(TRUE, FALSE, TRUE, FALSE), KeyState(FALSE, FALSE, FALSE, TRUE)}

\* cars at speed 30 and at speed 22: heading for a tree at the edge of the
\* central space, about to land from a flight, and heading for the
\* launchpad at (48, 0)
DriftCars ==
    {CarAt(0, 8000, 0, 3000),
     CarAt(0, 8000, 0, 2200),
     Flying(CarAt(2000, 0, 0, 3000), 80, -100),
     CarAt(4000, 0, HalfPiMilli, 3000)}

InitDrift ==
    /\ car \in DriftCars
    /\ boost = NewBoost
    /\ score = 0
    /\ physicsObjects = <<>>
    /\ humans = <<>>
    /\ obstacles = <<createTree(0, 9000)>>
    /\ ramps = CityRamps
    /\ time = 0
    /\ ticks = 0
    /\ ev = NoEvent

DriftTick ==
    /\ ticks < MaxDriftTicks
    /\ \E dt \in DriftDeltaTimes, keys \in DriftKeys, rnd \in Draws : Frame(dt, keys, rnd)

SpecDrift == InitDrift /\ [][DriftTick]_vars

----------------------------------------------------------------------------
(* Scenario: drifting in the central open space with the mark list empty,   *)
(* nearly full, and about to fade                                           *)

MaxMarkTicks == 3

MarkDeltaTimes == {20, 50, 100}

MarkKeys == {NoKeys, Forward, KeyState(TRUE, FALSE, TRUE, FALSE)}

\* the marks of n pairs laid every step ms from the time t0 on
Trail(n, t0, step) ==
    [i \in 1..(2 * n) |->
        Mark(t0 + ((i - 1) \div 2) * step, IF i % 2 = 1 THEN "left" ELSE "right")]

\* the car at speed 30 in the central open space at the time now, with
\* the marks it has laid
MarkStarts ==
    {[car |-> CarAt(0, 0, 0, 3000), now |-> 0],
     [car |-> [CarAt(1000, 2000, 1047, 3000) EXCEPT !.driftMarks = Trail(49, 50, 50),
                                                    !.isDrifting = TRUE],
      now |-> 2450],
     [car |-> [CarAt(-2000, 1000, 0, 3000) EXCEPT !.driftMarks = Trail(20, 50, 50),
                                                  !.lastDriftMarkTime = 20],
      now |-> 4980]}

InitMarks ==
    /\ \E s \in MarkStarts : car = s.car /\ time = s.now
    /\ boost = NewBoost
    /\ score = 0
    /\ physicsObjects = <<>>
    /\ humans = <<>>
    /\ obstacles = <<createTree(0, 9000)>>
    /\ ramps = CityRamps
    /\ ticks = 0
    /\ ev = NoEvent

MarkTick ==
    /\ ticks < MaxMarkTicks
    /\ \E dt \in MarkDeltaTimes, keys \in MarkKeys, rnd \in Draws : Frame(dt, keys, rnd)

SpecMarks == InitMarks /\ [][MarkTick]_vars

----------------------------------------------------------------------------
(* Scenario: a launchpad of the central space with props and pedestrians    *)

MaxOrderTicks == 3

OrderDeltaTimes == {100, 500}

OrderKeys == {NoKeys, Forward}

\* the car heading east for the launchpad at (48, 0), fast and slowly
OrderCars ==
    {CarAt(4000, 0, HalfPiMilli, 3000), CarAt(4000, 0, HalfPiMilli, 400)}

\* createPhysicsObjects and createHumans scatter props and pedestrians
\* over the open spaces: a crate and a barrel, and two pedestrians, on and
\* beside the launchpad
InitOrder ==
    /\ car \in OrderCars
    /\ boost = NewBoost
    /\ score = 0
    /\ physicsObjects = <<createCrate(4450, 150, 0), createBarrel(5300, 0)>>
    /\ humans = <<createHuman(4350, -150, TRUE, 0, 300, 600),
                  createHuman(5000, 300, FALSE, 0, 250, 700)>>
    /\ obstacles = <<>>
    /\ ramps = CityRamps
    /\ time = 0
    /\ ticks = 0
    /\ ev = NoEvent

OrderTick ==
    /\ ticks < MaxOrderTicks
    /\ \E dt \in OrderDeltaTimes, keys \in OrderKeys, rnd \in Draws : Frame(dt, keys, rnd)

SpecOrder == InitOrder /\ [][OrderTick]_vars
----------------------------------------------------------------------------
(* Scenario: the car among pedestrians near the west edge                   *)

MaxPedTicks == 3

PedDeltaTimes == {100, 500}

PedKeys == {NoKeys, Forward}

\* the car 100 ms after the boundary bounce threw it up: 0.7 above the
\* ground with vertical velocity 2
Hopped(c) ==
    [c EXCEPT !.position.y = 70, !.lastValidPosition.y = 70,
              !.isAirborne = TRUE, !.verticalVelocity = 200]

\* the car heading east from (-83.4, 0): slow, fast, and in the air
PedCars ==
    {CarAt(-8340, 0, HalfPiMilli, 400),
     CarAt(-8340, 0, HalfPiMilli, 3000),
     Hopped(CarAt(-8340, 0, HalfPiMilli, 1592))}

\* a pedestrian who is running from a car seen at the point from
Fleeing(h, from) ==
    [h EXCEPT !.state = "fleeing", !.runningFrom = from,
              !.velocity = VScale(VNormalize(VSub(h.position, from)), h.fleeSpeed, 1000),
              !.rotation = Atan2(h.position.x - from.x, h.position.z - from.z)]

\* one pedestrian walking west towards the car, two running from it
Pedestrians ==
    <<Heading(createHuman(-6940, 0, TRUE, 0, 300, 600), Vec(-300, 0, 0)),
      Fleeing(createHuman(-6340, 100, TRUE, 0, 250, 700), Vec(-8340, RideHeight, 0)),
      Fleeing(createHuman(-6422, 1400, FALSE, 0, 350, 500), Vec(-8340, RideHeight, 0))>>

InitPed ==
    /\ car \in PedCars
    /\ boost = NewBoost
    /\ score = 0
    /\ physicsObjects = <<>>
    /\ humans = Pedestrians
    /\ obstacles = <<WestSegment(5, 2000), InvisibleWestWall>>
    /\ ramps = <<>>
    /\ time = 0
    /\ ticks = 0
    /\ ev = NoEvent

PedTick ==
    /\ ticks < MaxPedTicks
    /\ \E dt \in PedDeltaTimes, keys \in PedKeys, rnd \in Draws : Frame(dt, keys, rnd)

SpecPed == InitPed /\ [][PedTick]_vars

----------------------------------------------------------------------------
(* Scenario: pedestrians in the north-west corner of the playable area      *)

MaxCornerTicks == 3

CornerDeltaTimes == {100, 500}

CornerKeys == {NoKeys, Forward}

\* the car creeping towards the corner, and driving along the north edge
CornerCars ==
    {CarAt(-8400, 8400, -785, 300),
     CarAt(-7000, 8500, -HalfPiMilli, 300)}

\* one pedestrian walking north towards the edge, one running from a car
\* seen in the south-east
CornerPedestrians ==
    <<Heading(createHuman(-8000, 8900, FALSE, 0, 300, 600), Vec(0, 0, 300)),
      Fleeing(createHuman(-8900, 8800, TRUE, 0, 250, 700), Vec(-8400, RideHeight, 8400))>>

InitCorner ==
    /\ car \in CornerCars
    /\ boost = NewBoost
    /\ score = 0
    /\ physicsObjects = <<>>
    /\ humans = CornerPedestrians
    /\ obstacles = <<WestSegment(10, 2000), InvisibleWestWall>>
    /\ ramps = CityRamps
    /\ time = 0
    /\ ticks = 0
    /\ ev = NoEvent

CornerTick ==
    /\ ticks < MaxCornerTicks
    /\ \E dt \in CornerDeltaTimes, keys \in CornerKeys, rnd \in Draws : Frame(dt, keys, rnd)

SpecCorner == InitCorner /\ [][CornerTick]_vars

----------------------------------------------------------------------------
(* Scenario: the car driving west through a group of props                  *)

MaxPropTicks == 2

\* a frame of 12 s is one delivered after the page was in the background
PropDeltaTimes == {0, 100, 12000}

PropKeys == {NoKeys, Forward}

PropSpeeds == {250, 500, 750, 1000, 1250, 1500, 3350}

\* a prop that was knocked over earlier and has come to rest at pos
Lying(obj, pos, rot, timer) ==
    [obj EXCEPT !.position = pos, !.rotation = rot, !.isKnockedOver = TRUE,
                !.resetTimer = timer]

\* props on and beside the middle horizontal road, and two that lie where
\* they came to rest: a bench 20 from the car, a crate 56 from it
PropGroup ==
    <<createTrashCan(-4800, -3600),
      createBarrel(-4700, -3350),
      createCrate(-5026, -3500, 0),
      createCrate(-4700, -3650, 785),
      createStreetlight(-4750, -3400),
      createBench(-4650, -3700, 0),
      Lying(createBench(-2400, -3900, 0), Vec(-2600, 25, -3500), Vec(HalfPiMilli, 0, 0), 3000),
      Lying(createCrate(1200, -3800, 0), Vec(1000, 75, -3500), Vec(0, 0, HalfPiMilli), 5000)>>

InitProp ==
    /\ \E s \in PropSpeeds : car = CarAt(-4600, -3500, -HalfPiMilli, s)
    /\ boost = NewBoost
    /\ score = 0
    /\ physicsObjects = PropGroup
    /\ humans = <<>>
    /\ obstacles = <<WestSegment(3, 2000), InvisibleWestWall>>
    /\ ramps = <<>>
    /\ time = 0
    /\ ticks = 0
    /\ ev = NoEvent

PropTick ==
    /\ ticks < MaxPropTicks
    /\ \E dt \in PropDeltaTimes, keys \in PropKeys, rnd \in Draws : Frame(dt, keys, rnd)

SpecProp == InitProp /\ [][PropTick]_vars

----------------------------------------------------------------------------
(* Scenario: resetPhysicsObject called on props that stand where they were  *)
(* created                                                                  *)

MaxResets == 2

SidewalkDraws ==
    {Sidewalk(TRUE, 1, 1, -2000), Sidewalk(TRUE, 2, -1, 6100),
     Sidewalk(FALSE, 3, -1, 4000), Sidewalk(FALSE, 0, 1, -7300)}

StandingProps ==
    UNION {{createBarrel(x, z), createTrashCan(x, z), createStreetlight(x, z),
            createCrate(x, z, 0), createCrate(x, z, 785),
            createBench(x, z, 0), createBench(x, z, 785)} :
           x \in {-3000, 1200}, z \in {-4150, 2000, 7850}}

InitReset ==
    /\ car = SpawnCar
    /\ boost = NewBoost
    /\ score = 0
    /\ \E obj \in StandingProps : physicsObjects = <<obj>>
    /\ humans = <<>>
    /\ obstacles = <<>>
    /\ ramps = <<>>
    /\ time = 0
    /\ ticks = 0
    /\ ev = NoEvent

\* this.resetPhysicsObject(obj); ev keeps where the prop stood at the call
ResetCall ==
    /\ ticks < MaxResets
    /\ \E i \in 1..Len(physicsObjects), r \in SidewalkDraws :
          /\ physicsObjects' = [physicsObjects EXCEPT ![i] = resetPhysicsObject(@, r)]
          /\ ev' = [NoEvent EXCEPT !.moved = <<physicsObjects[i].position>>,
                                   !.resets = <<TRUE>>]
    /\ ticks' = ticks + 1
    /\ UNCHANGED <<car, boost, score, humans, obstacles, ramps, time>>

SpecReset == InitReset /\ [][ResetCall]_vars

----------------------------------------------------------------------------
(* Scenario: the car driving into two standing props beside a barrel that   *)
(* lies where it came to rest                                               *)

MaxPushTicks == 3

PushDeltaTimes == {0, 100}

PushKeys == {NoKeys, Forward}

PushSpeeds == {600, 1300, 1500, 3000}

\* a crate and a bench standing on the road ahead of the car, and a barrel
\* knocked over earlier lying beside them
PushedProps ==
    <<createCrate(-4900, -3450, 0),
      createBench(-4850, -3600, 0),
      Lying(createBarrel(-4300, -3300), Vec(-4700, 100, -3400), Vec(HalfPiMilli, 0, 0), 2000)>>

InitPush ==
    /\ \E s \in PushSpeeds : car = CarAt(-4600, -3500, -HalfPiMilli, s)
    /\ boost = NewBoost
    /\ score = 0
    /\ physicsObjects = PushedProps
    /\ humans = <<>>
    /\ obstacles = <<createTree(2980, -3500)>>
    /\ ramps = CityRamps
    /\ time = 0
    /\ ticks = 0
    /\ ev = NoEvent

PushTick ==
    /\ ticks < MaxPushTicks
    /\ \E dt \in PushDeltaTimes, keys \in PushKeys, rnd \in Draws : Frame(dt, keys, rnd)

SpecPush == InitPush /\ [][PushTick]_vars
----------------------------------------------------------------------------
(* Scenario: the launchpad at (48, 0) and the directional ramp that         *)
(* createRamps puts at (30, 10)                                             *)

MaxRampTicks == 4

RampDeltaTimes == {100, 250}

RampKeys == {NoKeys, Forward}

\* City.createRamp(x, z, rotation)
createRamp(x, z, rotation) == Ramp(Vec(x, 50, z), rotation, 700, 800, 400, 1800)

\* the ramp list with the four ramps of createRamps after the launchpads
\* of addStuntRamps
RampsCreated ==
    CityRamps \o <<createRamp(3000, 1000, 0), createRamp(-3000, -500, PiMilli),
                   createRamp(500, -3000, HalfPiMilli),
                   createRamp(-1500, 2500, -HalfPiMilli)>>

\* cars heading up the ramp at (30, 10), fast and slow, down it from its
\* high end, over it in flight, and onto the launchpad at (48, 0)
RampCars ==
    {CarAt(3000, 550, 0, 2000),
     CarAt(3000, 900, 0, 600),
     CarAt(3000, 1550, PiMilli, 2000),
     Flying(CarAt(3000, 800, 0, 2000), 500, 600),
     CarAt(4100, 0, HalfPiMilli, 2000)}

InitRamp ==
    /\ car \in RampCars
    /\ boost = NewBoost
    /\ score = 0
    /\ physicsObjects = <<>>
    /\ humans = <<>>
    /\ obstacles = <<createTree(0, 9000)>>
    /\ ramps = RampsCreated
    /\ time = 0
    /\ ticks = 0
    /\ ev = NoEvent

RampTick ==
    /\ ticks < MaxRampTicks
    /\ \E dt \in RampDeltaTimes, keys \in RampKeys, rnd \in Draws : Frame(dt, keys, rnd)

SpecRamp == InitRamp /\ [][RampTick]_vars

----------------------------------------------------------------------------
(* Scenario: checkCollisions over obstacle lists with defective entries     *)

\* the entry o without the fields named in gone
Without(o, gone) == [f \in DOMAIN o \ gone |-> o[f]]

\* an obstacle pushed without a position
WithoutPosition(o) == Without([o EXCEPT !.hasPosition = FALSE], {"position"})

\* a box obstacle pushed without a mesh, with a mesh that has no geometry
\* (a THREE.Group), and with a geometry that has no parameters
WithoutMesh(o) ==
    Without([o EXCEPT !.mesh = FALSE, !.geometry = FALSE, !.parameters = FALSE],
            {"width", "depth", "rotation"})

WithoutGeometry(o) ==
    Without([o EXCEPT !.geometry = FALSE, !.parameters = FALSE], {"width", "depth"})

WithoutParameters(o) == Without([o EXCEPT !.parameters = FALSE], {"width", "depth"})

\* the middle segment of the west boundary row, and a tree east of it
ScanWall == WestSegment(5, 2000)

ScanTree == createTree(-9000, 0)

\* the ways an entry can be defective
Defective ==
    {WithoutPosition(ScanWall), WithoutPosition(ScanTree), WithoutMesh(ScanWall),
     WithoutGeometry(ScanWall), WithoutParameters(ScanWall)}

\* obstacle lists with a defective entry before, between and after the
\* wall and the tree
ScanLists ==
    UNION {{<<d, ScanWall, ScanTree>>, <<ScanTree, d, ScanWall>>,
            <<d, ScanTree>>, <<ScanWall, d>>} : d \in Defective}
    \cup {<<d, e, ScanWall>> : d, e \in Defective}

\* what a call of checkCollisions saw and returned
ScanEvent(position, obs) ==
    [position |-> position, result |-> checkCollisions(position, obs)]

\* the positions tested: on the line z = 0 from the wall to beyond the
\* tree, 0.5 apart
ScanXs == {-9700 + 50 * k : k \in 0..24}

InitScan ==
    /\ car = CarAt(-9700, 0, HalfPiMilli, 0)
    /\ boost = NewBoost
    /\ score = 0
    /\ physicsObjects = <<>>
    /\ humans = <<>>
    /\ obstacles \in ScanLists
    /\ ramps = CityRamps
    /\ time = 0
    /\ ticks = 0
    /\ ev = ScanEvent(Vec(-9700, RideHeight, 0), obstacles)

\* checkCollisions is called at a position 0.5 further along the line
ScanCall ==
    /\ car.position.x + 50 \in ScanXs
    /\ car' = [car EXCEPT !.position.x = car.position.x + 50]
    /\ ev' = ScanEvent(car'.position, obstacles)
    /\ UNCHANGED <<boost, score, physicsObjects, humans, obstacles, ramps, time, ticks>>

SpecScan == InitScan /\ [][ScanCall]_vars

----------------------------------------------------------------------------
(* Scenario: knocked-over props left behind by the car, which stands more   *)
(* than 50 away from them                                                   *)

MaxSettleTicks == 3

MaxSettleTime == 100

\* a frame of 10 s is one delivered after the page was in the background
SettleDeltaTimes == {25, 40, 10000}

\* a knocked-over prop still moving with velocity v and spin w
Tumbling(obj, pos, v, w, timer) ==
    [Lying(obj, pos, obj.originalRotation, timer) EXCEPT !.velocity = v,
                                                        !.angularVelocity = w]

\* props that have been tumbling for nearly 60 s of slow frames: a crate
\* bouncing on the spot, a barrel rolling away from where it was hit, a
\* crate sliding and turning slowly, a streetlight and a trash can
KnockedProps ==
    {Tumbling(createCrate(-6500, -3600, 0), Vec(-6700, 75, -3500), Vec(0, 11, 0),
              ZeroVec, 59900),
     Tumbling(createBarrel(-7000, -3350), Vec(-7400, 100, -3300), Vec(-14, 0, 4),
              Vec(8, 0, 28), 59850),
     Tumbling(createCrate(-6000, -2000, 785), Vec(-6200, 75, -2100), Vec(-12, 0, 5),
              Vec(0, 120, 0), 59990),
     Tumbling(createStreetlight(-6600, -2900), Vec(-6900, 300, -2950), Vec(-30, 20, 0),
              Vec(0, 0, 150), 59800),
     Tumbling(createTrashCan(-5800, -3600), Vec(-6100, 100, -3700), Vec(-20, 0, -15),
              Vec(90, 0, -90), 59900)}

InitSettle ==
    /\ car = SpawnCar
    /\ boost = NewBoost
    /\ score = 0
    /\ \E obj \in KnockedProps : physicsObjects = <<obj>>
    /\ humans = <<>>
    /\ obstacles = <<createTree(2980, -3500)>>
    /\ ramps = CityRamps
    /\ time = 0
    /\ ticks = 0
    /\ ev = NoEvent

\* the state a frame leaves behind; to keep the states finite the frame
\* counter wraps at MaxSettleTicks and the clock stops at MaxSettleTime
SettleFrame(g, dt) ==
    /\ car' = g.car
    /\ boost' = g.boost
    /\ score' = g.score
    /\ physicsObjects' = g.physicsObjects
    /\ humans' = g.humans
    /\ ev' = g.ev
    /\ time' = Min(time + dt, MaxSettleTime)
    /\ ticks' = (ticks % MaxSettleTicks) + 1
    /\ UNCHANGED <<obstacles, ramps>>

\* a frame with no key held
SettleTick ==
    \E dt \in SettleDeltaTimes, rnd \in Draws :
        SettleFrame(Held(GameUpdate(car, boost, score, physicsObjects, humans, obstacles,
                                    ramps, NoKeys, dt, rnd, time + dt), NoKeys), dt)

\* the step of the frame counter that every frame takes
FrameRuns == ticks' = (ticks % MaxSettleTicks) + 1

\* requestAnimationFrame calls Game.update again after every frame: frames
\* keep coming
SpecSettle == InitSettle /\ [][SettleTick]_vars /\ WF_ticks(FrameRuns)

----------------------------------------------------------------------------
(* Scenario: getSteeringIntensity over the whole speed range                *)

\* what a call of getSteeringIntensity saw and returned
SteerEvent(speed) == [speed |-> speed, steeringIntensity |-> getSteeringIntensity(speed)]

\* the speeds of the car, in steps of 0.01: full reverse to full forward
SteerSpeeds == (-(maxSpeed \div 2))..maxSpeed

InitSteer ==
    /\ car = NewCar
    /\ boost = NewBoost
    /\ score = 0
    /\ physicsObjects = <<>>
    /\ humans = <<>>
    /\ obstacles = <<>>
    /\ ramps = <<>>
    /\ time = 0
    /\ ticks = 0
    /\ ev = SteerEvent(NewCar.speed)

\* the speed moves by 0.01 and getSteeringIntensity is called
SteerCall ==
    /\ \E d \in {-1, 1} :
          /\ car.speed + d \in SteerSpeeds
          /\ car' = [car EXCEPT !.speed = car.speed + d]
          /\ ev' = SteerEvent(car.speed + d)
    /\ UNCHANGED <<boost, score, physicsObjects, humans, obstacles, ramps, time, ticks>>

SpecSteer == InitSteer /\ [][SteerCall]_vars

----------------------------------------------------------------------------
(* Scenario: the launchpad of the open space at (-57, 57) and the tree of    *)
(* that space, and two trees at the edge of the central space               *)

MaxStuntTicks == 4

StuntDeltaTimes == {100, 250, 500}

StuntKeys == {NoKeys, Forward}

\* a car that crept onto launchpad i at a speed below 5: it rides at the
\* pad's height
Riding(c, i) ==
    [c EXCEPT !.position.y = RideHeight + 30, !.lastValidPosition.y = RideHeight + 30,
              !.onRamp = TRUE, !.currentRamp = i]

\* addOpenSpaceDecorations puts each tree at a random angle, 0.7 to 0.9
\* radii from the centre of its space.  Three cities: two trees of the
\* central space side by side, and the tree of the space at (-57, 57)
\* south of its launchpad or east of it; with each, the cars that drive
\* or fly at the trees
StuntStarts ==
    {[car |-> CarAt(0, 8000, 0, 2000),
      obstacles |-> <<createTree(0, 9000), createTree(100, 9000)>>],
     [car |-> CarAt(-4100, 6350, PiMilli, 2000),
      obstacles |-> <<createTree(-4100, 2907)>>],
     [car |-> CarAt(-4820, 5700, -HalfPiMilli, -2000),
      obstacles |-> <<createTree(-2900, 5700)>>],
     [car |-> CarAt(-4750, 5700, HalfPiMilli, 2000),
      obstacles |-> <<createTree(-2900, 5700)>>],
     [car |-> Riding(CarAt(-3740, 5700, HalfPiMilli, 300), 4),
      obstacles |-> <<createTree(-2900, 5700)>>]}

InitStunt ==
    /\ \E s \in StuntStarts : car = s.car /\ obstacles = s.obstacles
    /\ boost = NewBoost
    /\ score = 0
    /\ physicsObjects = <<>>
    /\ humans = <<>>
    /\ ramps = CityRamps
    /\ time = 0
    /\ ticks = 0
    /\ ev = NoEvent

StuntTick ==
    /\ ticks < MaxStuntTicks
    /\ \E dt \in StuntDeltaTimes, keys \in StuntKeys, rnd \in Draws : Frame(dt, keys, rnd)

SpecStunt == InitStunt /\ [][StuntTick]_vars
----------------------------------------------------------------------------
(* Scenario: the car driving east between two crates, one of which has been *)
(* knocked over and reset before                                            *)

MaxAgainTicks == 3

\* in a frame of 2 s the car is more than 50 further on
AgainDeltaTimes == {100, 2000}

AgainKeys == {NoKeys, Forward}

AgainSpeeds == {1500, 3000}

\* a prop standing again after a reset, its timer at what it had reached
StoodUp(obj, timer) == [obj EXCEPT !.resetTimer = timer]

\* a crate whose timer passed 60 s in an earlier knock-over, a crate never
\* touched, and a barrel lying far behind the car for nearly 60 s
AgainProps ==
    <<StoodUp(createCrate(-4400, -3400, 0), 61000),
      createCrate(-4400, -3600, 0),
      Tumbling(createBarrel(4000, 3000), Vec(4400, 100, 3300), Vec(0, 500, 0),
               Vec(0, 0, 200), 59000)>>

InitAgain ==
    /\ \E s \in AgainSpeeds : car = CarAt(-4600, -3500, HalfPiMilli, s)
    /\ boost = NewBoost
    /\ score = 0
    /\ physicsObjects = AgainProps
    /\ humans = <<>>
    /\ obstacles = <<createTree(0, 9000)>>
    /\ ramps = CityRamps
    /\ time = 0
    /\ ticks = 0
    /\ ev = NoEvent

AgainTick ==
    /\ ticks < MaxAgainTicks
    /\ \E dt \in AgainDeltaTimes, keys \in AgainKeys, rnd \in Draws : Frame(dt, keys, rnd)

SpecAgain == InitAgain /\ [][AgainTick]_vars
----------------------------------------------------------------------------
(* Properties.  C1 is checked on Spec, C2 and C3 on SpecCrash, C4 to C6 on   *)
(* SpecPed, C7 on SpecReset, C8 and C9 on SpecProp, C10 on SpecAccel.        *)

\* C1: at the end of every tick in which neither a bounce (obstacle
\* collision or boundary bounce) nor the boost was applied, the signed
\* speed lies within -maxSpeed/2 <= speed <= maxSpeed.
C1_SpeedWithinLimits ==
    (ticks > 0 /\ ~ev.collided /\ ~ev.boundary /\ ~ev.boosted)
        => (car.speed >= -(maxSpeed \div 2) /\ car.speed <= maxSpeed)


\* the horizontal part of a vector
Flat(v) == Vec(v.x, 0, v.z)

\* the car drove straight at the centre of the obstacle it hit
HeadOn(e, o) ==
    /\ e.dirBefore.y = 0
    /\ e.dirBefore.x * (o.position.z - e.from.z) = e.dirBefore.z * (o.position.x - e.from.x)
    /\ VDot(e.dirBefore, Flat(VSub(o.position, e.from))) > 0

\* C2: after every collision Car.update resolved, the speed it set is
\* |impact speed| * 0.3 and the car ends the tick no nearer to the
\* obstacle's centre than boundingRadius + obstacle.boundingRadius.
C2_CollisionResolved ==
    (ticks > 0 /\ ev.collided) =>
        /\ ev.resolved.speed = MulDiv(Abs(ev.impactSpeed), 300, 1000)
        /\ ~DistLT(car.position, obstacles[ev.obstacle].position,
                   180 + obstacles[ev.obstacle].boundingRadius)

\* C3: a head-on collision at speed 20 with a box-footprint obstacle leaves
\* speed 20 * bounceFactor, a direction pointing against the direction
\* before the impact, and the car no nearer to the obstacle's centre than
\* boundingRadius + obstacle.boundingRadius.
C3_HeadOnBounce ==
    (/\ ticks > 0 /\ ev.collided
     /\ obstacles[ev.obstacle].type \in {"building", "skyscraper", "boundary", "stadium"}
     /\ ev.impactSpeed = 2000
     /\ HeadOn(ev, obstacles[ev.obstacle])) =>
        /\ ev.resolved.speed = 600
        /\ VDot(ev.resolved.direction, ev.dirBefore) < 0
        /\ ~DistLT(car.position, obstacles[ev.obstacle].position,
                   180 + obstacles[ev.obstacle].boundingRadius)

\* pedestrian i is within the kill distance of the car as this frame leaves
\* it, and the car is faster than the kill speed
KillCase(i) ==
    /\ DistLT(humans[i].position, car'.position, 180 + humans[i].boundingRadius)
    /\ Abs(car'.speed) > 500

\* C4: a dead pedestrian's state, isDead flag, position and velocity never
\* change; a walking or fleeing pedestrian within vehicle radius +
\* pedestrian radius of a car faster than 5 is dead at the end of that tick.
C4_DeadIsTerminal ==
    [][\A i \in 1..Len(humans) :
          /\ (humans[i].state = "dead" \/ humans[i].isDead) =>
                /\ humans'[i].state = humans[i].state
                /\ humans'[i].isDead = humans[i].isDead
                /\ humans'[i].position = humans[i].position
                /\ humans'[i].velocity = humans[i].velocity
          /\ (humans[i].state \in {"walking", "fleeing"} /\ KillCase(i)) =>
                (humans'[i].state = "dead" /\ humans'[i].isDead)]_vars

C4_Witness ==
    /\ ticks > 0
    /\ \E i \in 1..Len(humans) :
          ev.was[i] = "dead" /\ humans[i].state = "dead" /\ humans[i].isDead
    /\ \E j \in 1..Len(humans) :
          ev.was[j] = "fleeing" /\ humans[j].state = "dead"

\* this frame's distance test for pedestrian i: nearer to the car than d
CarWithin(i, d) == DistLT(humans[i].position, car'.position, d)

\* the straight flee step of this frame cannot take pedestrian i into the
\* band along the world's edge where the flee direction is replaced
ClearOfEdge(i) ==
    /\ Abs(humans[i].position.x) + MulDiv(humans[i].fleeSpeed, ev'.deltaTime, 1000)
           < HalfSize - 500
    /\ Abs(humans[i].position.z) + MulDiv(humans[i].fleeSpeed, ev'.deltaTime, 1000)
           < HalfSize - 500

\* C5: a walking pedestrian the car comes within detectionRadius of, and
\* does not kill, is fleeing at the end of that tick with its velocity and
\* position as they were; its velocity has magnitude fleeSpeed at the end
\* of each later tick on which it is still fleeing within 1.5 x
\* detectionRadius, is not killed and is clear of the world's edge.
C5_StartsFleeing ==
    [][\A i \in 1..Len(humans) :
          /\ (humans[i].state = "walking" /\ ~KillCase(i)
              /\ CarWithin(i, humans[i].detectionRadius)) =>
                /\ humans'[i].state = "fleeing"
                /\ humans'[i].velocity = humans[i].velocity
                /\ humans'[i].position = humans[i].position
          /\ (humans[i].state = "fleeing" /\ ~KillCase(i)
              /\ CarWithin(i, (3 * humans[i].detectionRadius) \div 2)
              /\ ClearOfEdge(i)) =>
                /\ humans'[i].state = "fleeing"
                /\ Abs(VLen(humans'[i].velocity) - humans[i].fleeSpeed) <= 3]_vars

C5_Witness ==
    /\ ticks > 1
    /\ \E i \in 1..Len(humans) :
          /\ ev.was[i] = "fleeing" /\ humans[i].state = "fleeing"
          /\ humans[i].runningFrom # Vec(-8340, RideHeight, 0)
          /\ Abs(VLen(humans[i].velocity) - humans[i].fleeSpeed) <= 3
          /\ VLen(humans[i].velocity) > humans[i].walkSpeed + 100

\* C5 as stated: fleeing with a velocity of magnitude fleeSpeed at the end
\* of the very tick on which the car came within detectionRadius
C5_AsStated ==
    [][\A i \in 1..Len(humans) :
          (humans[i].state = "walking" /\ ~KillCase(i)
           /\ CarWithin(i, humans[i].detectionRadius)) =>
                /\ humans'[i].state = "fleeing"
                /\ Abs(VLen(humans'[i].velocity) - humans[i].fleeSpeed) <= 3]_vars

\* C6: a pedestrian goes from walking to fleeing only on a tick where the
\* car is nearer than detectionRadius R, and from fleeing to walking only
\* on a tick where the car is at 1.5 R or farther; with R <= distance <
\* 1.5 R a walking pedestrian stays walking and a fleeing one stays fleeing.
C6_Hysteresis ==
    [][\A i \in 1..Len(humans) :
          /\ (humans[i].state = "walking" /\ humans'[i].state = "fleeing") =>
                CarWithin(i, humans[i].detectionRadius)
          /\ (humans[i].state = "fleeing" /\ humans'[i].state = "walking") =>
                ~CarWithin(i, (3 * humans[i].detectionRadius) \div 2)
          /\ (/\ humans[i].state \in {"walking", "fleeing"}
              /\ ~CarWithin(i, humans[i].detectionRadius)
              /\ CarWithin(i, (3 * humans[i].detectionRadius) \div 2)) =>
                humans'[i].state = humans[i].state]_vars

\* a pedestrian left the fleeing state with the car at exactly 1.5 R
C6_Witness ==
    /\ ticks > 0
    /\ \E i \in 1..Len(humans) :
          /\ ev.was[i] = "fleeing" /\ humans[i].state = "walking"
          /\ ~DistLT(humans[i].position, car.position, 2250)
          /\ ~DistGT(humans[i].position, car.position, 2250)

\* C6 as stated: fleeing ends only when the distance exceeds 1.5 R, and
\* the state is kept for R <= distance <= 1.5 R
C6_AsStated ==
    [][\A i \in 1..Len(humans) :
          /\ (humans[i].state = "walking" /\ humans'[i].state = "fleeing") =>
                CarWithin(i, humans[i].detectionRadius)
          /\ (humans[i].state = "fleeing" /\ humans'[i].state = "walking") =>
                DistGT(humans[i].position, car'.position,
                       (3 * humans[i].detectionRadius) \div 2)
          /\ (/\ humans[i].state \in {"walking", "fleeing"}
              /\ ~CarWithin(i, humans[i].detectionRadius)
              /\ ~DistGT(humans[i].position, car'.position,
                         (3 * humans[i].detectionRadius) \div 2)) =>
                humans'[i].state = humans[i].state]_vars

\* a prop that stands at rest where it was created
Standing(obj) ==
    /\ ~obj.isKnockedOver
    /\ obj.position = obj.originalPosition /\ obj.rotation = obj.originalRotation
    /\ obj.velocity = ZeroVec /\ obj.angularVelocity = ZeroVec

\* C7: resetPhysicsObject leaves a standing barrel, crate, streetlight or
\* bench exactly as it was, so that a second call changes nothing either;
\* a standing trash can keeps rotation, velocity and angular velocity and
\* is moved, with its originalPosition, to a sidewalk position at height 1.
C7_ResetStanding ==
    [][\A i \in 1..Len(physicsObjects) :
          Standing(physicsObjects[i]) =>
              IF physicsObjects[i].type # "trashCan"
              THEN physicsObjects'[i] = physicsObjects[i]
              ELSE /\ physicsObjects'[i].rotation = physicsObjects[i].rotation
                   /\ physicsObjects'[i].velocity = physicsObjects[i].velocity
                   /\ physicsObjects'[i].angularVelocity = physicsObjects[i].angularVelocity
                   /\ physicsObjects'[i].position = physicsObjects'[i].originalPosition
                   /\ physicsObjects'[i].position.y = 100
                   /\ Standing(physicsObjects'[i])]_vars

C7_Witness ==
    /\ ticks = 2 /\ ev.resets = <<TRUE>>
    /\ physicsObjects[1].type = "crate" /\ physicsObjects[1].rotation.y = 785
    /\ physicsObjects[1].position = ev.moved[1]
    /\ Standing(physicsObjects[1])

\* C7 as stated: position, rotation, velocity and angular velocity of a
\* standing prop of every type are unchanged by the reset
C7_AsStated ==
    [][\A i \in 1..Len(physicsObjects) :
          Standing(physicsObjects[i]) =>
              /\ physicsObjects'[i].position = physicsObjects[i].position
              /\ physicsObjects'[i].rotation = physicsObjects[i].rotation
              /\ physicsObjects'[i].velocity = physicsObjects[i].velocity
              /\ physicsObjects'[i].angularVelocity = physicsObjects[i].angularVelocity]_vars

\* the car, where this frame leaves it, overlaps prop i
Overlaps(i) ==
    \/ DistLT(car'.position, physicsObjects[i].position, 180 + physicsObjects[i].radius)
    \/ /\ physicsObjects[i].type = "streetlight" /\ physicsObjects[i].hasPole
       /\ Abs(car'.position.x - physicsObjects[i].position.x) < 1000
       /\ Abs(car'.position.z - physicsObjects[i].position.z) < 1000
       /\ (car'.position.x - physicsObjects[i].position.x)
              * (car'.position.x - physicsObjects[i].position.x)
          + (car'.position.z - physicsObjects[i].position.z)
              * (car'.position.z - physicsObjects[i].position.z)
            < (180 + physicsObjects[i].poleRadius) * (180 + physicsObjects[i].poleRadius)

\* the impact force each type withstands
Withstands(type) ==
    CASE type = "trashCan" -> 300
      [] type = "barrel" -> 400
      [] type = "crate" -> 500
      [] type = "streetlight" -> 600
      [] type = "bench" -> 700

\* C8: a standing prop is knocked over on a tick exactly when the car
\* overlaps it and half the car's speed exceeds the threshold of its type;
\* a streetlight hit at speed 15 is knocked over, adds exactly 50 to the
\* score and has its light at another intensity than before on that tick.
C8_KnockOver ==
    [][\A i \in 1..Len(physicsObjects) :
          ~physicsObjects[i].isKnockedOver =>
              /\ physicsObjects'[i].isKnockedOver <=>
                     (Overlaps(i) /\ ev'.propSpeed > 2 * Withstands(physicsObjects[i].type))
              /\ (/\ physicsObjects[i].type = "streetlight"
                  /\ Overlaps(i) /\ ev'.propSpeed = 1500) =>
                     /\ physicsObjects'[i].isKnockedOver
                     /\ ev'.awarded[i] = 50
                     /\ physicsObjects'[i].lightIntensity
                            # physicsObjects[i].lightIntensity]_vars

C8_Witness ==
    /\ ticks > 0 /\ ev.propSpeed = 1500
    /\ \E i \in 1..Len(physicsObjects) :
          /\ physicsObjects[i].type = "streetlight" /\ physicsObjects[i].isKnockedOver
          /\ ev.awarded[i] = 50 /\ physicsObjects[i].lightIntensity # 1000

\* the position is outside the world bounds of the props
OffWorld(p) == Abs(p.x) > 50000 \/ Abs(p.z) > 50000

C10_Acceleration ==
    [][/\ car'.speed >= car.speed
       /\ (time' >= 1600 => car'.speed = 4000)
       /\ car'.position.z >= car.position.z
       /\ (time' > time => car'.position.z > car.position.z /\ car'.position.z > 0)]_vars

C10_Witness ==
    /\ ticks >= 2 /\ time >= 1600 /\ ev.deltaTime > 0
    /\ car.speed = 4000 /\ car.position.z > 0 /\ obstacles = <<>>

\* C10 as stated: top speed is there before 2 s have accumulated, and
\* position.z is positive and grows on every tick
C10_AsStated ==
    [][/\ car'.speed >= car.speed
       /\ (time < 2000 /\ time' >= 2000 => car.speed = 4000)
       /\ (car.speed = 4000 => car'.speed = 4000)
       /\ car'.position.z > 0
       /\ car'.position.z > car.position.z]_vars

\* normalized speed |speed| / maxSpeed of the car is at least 0.2
AtLeastFifth(speed) == Abs(speed) * 5 >= maxSpeed

\* C11: getSteeringIntensity is exactly 1.2 at speed 0; for normalized
\* speed s from 0.2 to 1.0 it never increases with s, is 1.0 for s < 0.6
\* and 0.8 - (s - 0.6) * 0.3 from 0.6 on, and changes by no more than
\* 0.001 between speeds 0.01 apart except for the drop from 1.0 to 0.8
\* at s = 0.6.
C11_SteeringIntensity ==
    [][/\ (car'.speed = 0 => ev'.steeringIntensity = 1200)
       /\ (AtLeastFifth(car.speed) /\ AtLeastFifth(car'.speed)) =>
             /\ (Abs(car'.speed) >= Abs(car.speed)
                    => ev'.steeringIntensity <= ev.steeringIntensity)
             /\ (Abs(car'.speed) * 5 < 3 * maxSpeed => ev'.steeringIntensity = 1000)
             /\ (Abs(car'.speed) * 5 >= 3 * maxSpeed =>
                    Abs(ev'.steeringIntensity
                        - (800 - (3 * (Abs(car'.speed) * 1000 - 600 * maxSpeed))
                                     \div (10 * maxSpeed))) <= 1)
             /\ ((Abs(car.speed) * 5 < 3 * maxSpeed) = (Abs(car'.speed) * 5 < 3 * maxSpeed)
                    => Abs(ev'.steeringIntensity - ev.steeringIntensity) <= 1)]_vars

\* the call at normalized speed 0.6 exactly, after one just below it
C11_Witness ==
    /\ car.speed * 5 = 3 * maxSpeed
    /\ ev.speed = car.speed /\ ev.steeringIntensity = 800

\* C11 as stated: continuous on the whole of 0.2 <= s <= 1.0
C11_AsStated ==
    [][/\ (car'.speed = 0 => ev'.steeringIntensity = 1200)
       /\ (AtLeastFifth(car.speed) /\ AtLeastFifth(car'.speed)) =>
             /\ (Abs(car'.speed) >= Abs(car.speed)
                    => ev'.steeringIntensity <= ev.steeringIntensity)
             /\ Abs(ev'.steeringIntensity - ev.steeringIntensity) <= 1]_vars

\* C12: after every tick the car's direction is (0,0,1) turned about the
\* vertical axis by rotation.y: length 1, no vertical component, and
\* atan2(direction.x, direction.z) equal to the yaw (each to 0.005).
C12_DirectionFromYaw ==
    ticks > 0 =>
        /\ Abs(VLen(car.direction) - 1000) <= 5
        /\ Abs(car.direction.y) <= 5
        /\ Abs(WrapAngle(Atan2(car.direction.x, car.direction.z) - car.rotation.y)) <= 5

\* p is over launchpad i
OverPad(p, i) ==
    (p.x - ramps[i].position.x) * (p.x - ramps[i].position.x)
    + (p.z - ramps[i].position.z) * (p.z - ramps[i].position.z)
        <= ramps[i].radius * ramps[i].radius

\* checkRampInteractions worked from the position and speed Car.update
\* left: the car is on a ramp exactly when that position is over a pad,
\* and it stays on the ground there only at a speed of at most 5
RampSawThisFrame ==
    /\ car'.onRamp <=> \E i \in 1..Len(ramps) : OverPad(car'.position, i)
    /\ \A i \in 1..Len(ramps) : OverPad(car'.position, i) => car'.currentRamp = i
    /\ (car'.onRamp /\ ~car'.isAirborne) => ev'.propSpeed <= 500

\* updatePhysicsObjects worked from the car as the ramp step left it
PropsSawThisFrame ==
    \A i \in 1..Len(physicsObjects) :
        ~physicsObjects[i].isKnockedOver =>
            (ev'.awarded[i] > 0 <=>
                 (Overlaps(i) /\ ev'.propSpeed > 2 * knockoverThreshold(physicsObjects[i].type)))

\* updateHumans worked from the car as the prop step left it
HumansSawThisFrame ==
    \A i \in 1..Len(humans) :
        ~humans[i].isDead => (humans'[i].isDead <=> KillCase(i))

\* C13: in every frame Car.update, collision handling included, is
\* finished before checkRampInteractions, updatePhysicsObjects and
\* updateHumans run, in that order, and each of the three works from the
\* position and speed the car has in this frame, never from those of the
\* frame before.
C13_Ordering ==
    [][RampSawThisFrame /\ PropsSawThisFrame /\ HumansSawThisFrame]_vars

\* a frame whose three steps all acted on the car's new position: the car
\* came onto a pad, knocked a prop over and ran a pedestrian down, none of
\* which its position at the start of the frame allowed
C13_Witness ==
    /\ ticks > 0 /\ car.onRamp
    /\ \A i \in 1..Len(ramps) : ~OverPad(ev.from, i)
    /\ \E i \in 1..Len(physicsObjects) :
          /\ ev.awarded[i] > 0
          /\ ~DistLT(ev.from, ev.moved[i], 180 + physicsObjects[i].radius)
    /\ \E j \in 1..Len(humans) :
          /\ humans[j].isDead /\ ev.was[j] # "dead"
          /\ ~DistLT(humans[j].position, ev.from, 180 + humans[j].boundingRadius)

\* the position Car.update tested on a tick without sweep: old position
\* plus velocity times deltaTime
Candidate(e) ==
    VAdd(e.from, VScale(VScale(e.dirBefore, e.impactSpeed, 1000), e.deltaTime, 1000))

\* the shape test of obstacle o at position p
ShapeHits(p, o) ==
    IF o.type \in {"building", "skyscraper", "boundary", "stadium"}
    THEN checkBoxCollision(p, o)
    ELSE DistLT(p, o.position, 180 + o.boundingRadius)

\* the result r of checkCollisions(p, obs) names the first obstacle of
\* obs that hits at p, and none exactly when none hits
NamesFirstHit(r, p, obs) ==
    /\ r.colliding = (\E i \in 1..Len(obs) : ShapeHits(p, obs[i]))
    /\ r.colliding =>
          /\ r.obstacle \in 1..Len(obs)
          /\ ShapeHits(p, obs[r.obstacle])
          /\ \A j \in 1..(r.obstacle - 1) : ~ShapeHits(p, obs[j])

\* n is the unit vector along d (of length 1 to within the resolution of
\* the arithmetic used here)
UnitAlong(n, d) == VDot(n, d) > 0 /\ Abs(VLen(n) - 1000) <= 50

\* what a tick without sweep must show for the result r at position p
ScanResult(e, r, p, obs) ==
    /\ NamesFirstHit(r, p, obs)
    /\ e.collided = r.colliding
    /\ e.obstacle = r.obstacle

RECURSIVE FirstOver(_, _)
FirstOver(p, i) ==
    IF i > Len(ramps) THEN 0
    ELSE IF OverPad(p, i) THEN i
    ELSE FirstOver(p, i + 1)

\* no entry is active: the car is off the ramps, at road height unless it
\* flies
NoneActive(c) ==
    /\ ~c.onRamp /\ c.currentRamp = 0 /\ c.rampHeight = 0
    /\ ~c.isAirborne => c.position.y = RideHeight

\* entry f alone is active.  A car that came to it on the ground rides at
\* its height if it is no faster than 5 and is launched by it otherwise,
\* with no more than its jump strength
OneActive(c, f, cameGrounded, speed) ==
    /\ c.onRamp /\ c.currentRamp = f /\ c.rampHeight = 0
    /\ cameGrounded =>
          /\ c.position.y = RideHeight + ramps[f].height
          /\ c.isAirborne <=> speed > 500
          /\ c.isAirborne =>
                (c.verticalVelocity > 0 /\ c.verticalVelocity <= ramps[f].jumpStrength)

C16_InsideRectangle ==
    ticks > 0 =>
        /\ Abs(car.position.x) <= (citySize * blockSize + (citySize + 1) * roadWidth) \div 2 - 1000
        /\ Abs(car.position.z) <= (citySize * blockSize + (citySize + 1) * roadWidth) \div 2 - 1000

\* the collision of the last tick was found by the test of the candidate
\* position, at the very centre of the obstacle, so that the contact
\* normal has length zero
DegenerateNormal(e, obs) ==
    /\ e.collided /\ ~(e.airborneBefore /\ e.impactSpeed > 1500)
    /\ Candidate(e) = obs[e.obstacle].position

\* C17: a collision whose contact normal has length zero stops the car:
\* speed 0, with direction and yaw as they were before the collision.
C17_DegenerateStops ==
    [][DegenerateNormal(ev', obstacles) =>
          /\ ev'.resolved.speed = 0
          /\ ev'.resolved.direction = ev'.dirBefore
          /\ car'.rotation.y = car.rotation.y]_vars

\* ceil(moveDistance / 2) samples, at least 3
SampleCount(moveDistance) == Max(3, (moveDistance + 199) \div 200)

\* sample k of n on the segment from the old position to the candidate
SamplePoint(e, k, n) ==
    VAdd(e.from,
         VScale(VNormalize(VSub(Candidate(e), e.from)),
                (VLen(VSub(Candidate(e), e.from)) * k) \div n, 1000))

\* the collision result of the tick is that of the first sample, in
\* order from the old position, at which checkCollisions reports a hit
FirstSample(e, obs, n) ==
    /\ e.collided = (\E k \in 1..n : checkCollisions(SamplePoint(e, k, n), obs).colliding)
    /\ \A k \in 1..n :
          (/\ checkCollisions(SamplePoint(e, k, n), obs).colliding
           /\ \A j \in 1..(k - 1) : ~checkCollisions(SamplePoint(e, j, n), obs).colliding)
          => e.obstacle = checkCollisions(SamplePoint(e, k, n), obs).obstacle

\* the collision result of the tick is that of the candidate position
EndpointOnly(e, obs) ==
    /\ e.collided = checkCollisions(Candidate(e), obs).colliding
    /\ e.obstacle = checkCollisions(Candidate(e), obs).obstacle

\* C18: an airborne car with |speed| above 15, forwards or in reverse, is
\* tested at max(3, ceil(distance / 2)) evenly spaced samples from the old
\* position to the candidate, the first colliding sample being the
\* result; in every other case only the candidate position is tested.
C18_SweptWhenFast ==
    [][IF car.isAirborne /\ Abs(ev'.impactSpeed) > 1500
       THEN FirstSample(ev', obstacles,
                        SampleCount(VLen(VSub(Candidate(ev'), ev'.from))))
       ELSE EndpointOnly(ev', obstacles)]_vars

\* the vertical velocity and the height the gravity step of a frame of
\* dt ms gives a car with vertical velocity vv at height y
AfterGravity(vv, y, dt) ==
    [verticalVelocity |-> vv - (gravity * dt) \div 1000,
     y |-> y + TDiv((vv - (gravity * dt) \div 1000) * dt, 1000)]

\* the car u is on the ground at ride height, having landed from r
LandedFrom(r, u, speed) ==
    /\ ~u.isAirborne
    /\ u.position.y = RideHeight /\ u.verticalVelocity = 0
    /\ speed = TDiv(r.speed * 7, 10)
    /\ u.rotation.x = TDiv(r.rotation.x, 2)
    /\ u.rotation.z = TDiv(r.rotation.z, 2)

\* the car u is still in the air, at the height the gravity step gave
StillFlying(u, g) ==
    /\ u.isAirborne
    /\ u.position.y = g.y /\ u.verticalVelocity = g.verticalVelocity

\* c stands level on the road whenever it is grounded and off the ramps
StandsLevel(c, onRamp) ==
    (~c.isAirborne /\ ~onRamp) =>
        (c.position.y = RideHeight /\ c.verticalVelocity = 0)

\* the fall of one frame: r is the car after the collision handling and
\* u the car at the end of Car.update
NaturalLanding(r, u, g, speed) ==
    r.isAirborne =>
        IF g.y <= RideHeight THEN LandedFrom(r, u, speed) ELSE StillFlying(u, g)

\* C19: a car that is airborne when the vertical step of Car.update runs
\* is grounded by it exactly when, after verticalVelocity -= gravity *
\* deltaTime and position.y += verticalVelocity * deltaTime, position.y
\* is <= 0.5; it then has position.y = 0.5, verticalVelocity = 0, 0.7 of
\* its speed and half its pitch and roll; and a car that is grounded and
\* not on a ramp, at the end of Car.update and at the end of the frame,
\* has position.y = 0.5 and verticalVelocity = 0.
C19_NaturalLanding ==
    [][/\ NaturalLanding(ev'.resolved, ev'.updated,
                         AfterGravity(ev'.resolved.verticalVelocity,
                                      ev'.resolved.position.y, ev'.deltaTime),
                         ev'.carUpdateSpeed)
       /\ StandsLevel(ev'.updated, car.onRamp)
       /\ StandsLevel(car', car'.onRamp)]_vars

\* a flight ended on the road: the car came down tilted and moving, with
\* no collision in the frame
C19_Witness ==
    /\ ticks > 0 /\ ~ev.collided
    /\ ev.resolved.isAirborne /\ ~ev.updated.isAirborne
    /\ ev.resolved.speed > 1000 /\ ev.resolved.rotation.x < -100
    /\ ev.carUpdateSpeed = TDiv(ev.resolved.speed * 7, 10)
    /\ ~car.isAirborne /\ ~car.onRamp /\ car.position.y = RideHeight

\* the car was in the air and falling when the collision of this tick
\* was found
FallingImpact ==
    car.isAirborne /\ car.verticalVelocity < 0 /\ ev'.collided

\* the car stands on the ground, level, after the collision handling
LandedLevel(r) ==
    /\ ~r.isAirborne /\ r.verticalVelocity = 0
    /\ r.rotation.x = 0 /\ r.rotation.z = 0

\* C20: an airborne car with negative vertical velocity that collides at
\* an impact speed of at most 10 is grounded after the collision handling
\* of that tick, with vertical velocity 0 and pitch and roll exactly 0; at
\* an impact speed above 10 it is thrown up instead and stays airborne
\* with vertical velocity 3 + min(5, 0.1 * |impact speed|).
C20_HardLanding ==
    [][FallingImpact =>
          IF Abs(ev'.impactSpeed) <= 1000
          THEN LandedLevel(ev'.resolved)
          ELSE /\ ev'.resolved.isAirborne
               /\ ev'.resolved.verticalVelocity
                     = 300 + Min(500, Abs(ev'.impactSpeed) \div 10)]_vars

\* C20 as stated: grounded and level for every impact speed
C20_AsStated == [][FallingImpact => LandedLevel(ev'.resolved)]_vars

\* a hard landing: the falling car met an obstacle at a speed below 10
C20_Witness ==
    /\ ticks > 0 /\ ev.collided
    /\ ev.airborneBefore /\ ev.fallSpeedBefore < 0
    /\ Abs(ev.impactSpeed) <= 1000 /\ Abs(ev.impactSpeed) > 0
    /\ LandedLevel(ev.resolved)
\* the car's place along directional ramp r, in 1/1000 of the ramp's
\* length from its low end
AlongRamp(p, r) ==
    ((TDiv((p.x - r.position.x) * Sin(r.rotation)
           + (p.z - r.position.z) * Cos(r.rotation), 1000)
      + r.length \div 2) * 1000) \div r.length

\* how well the heading d is aligned with ramp r, in 1/1000000
Alignment(d, r) == d.x * Sin(r.rotation) + d.z * Cos(r.rotation)

\* the frame's ramp step took a grounded car e into the air as c
LaunchedBy(e, c) == ~e.entered.isAirborne /\ c.isAirborne

\* the most a ramp may give: its jump strength, capped at 20 for a
\* directional ramp and at 22 for a launchpad
LaunchCap(r) == Min(r.jumpStrength, IF r.type = "launchpad" THEN 2200 ELSE 2000)

\* C21: the ramp step leaves a car that comes to it in flight in flight
\* with the vertical velocity it had; a car it launches came to it on
\* the ground, is given no more than min(jumpStrength, 20) by a
\* directional ramp and no more than min(jumpStrength, 22) by a launchpad,
\* and is launched by a directional ramp only from beyond 0.8 of its
\* length, faster than 10 and aligned better than 0.7 with it.
C21_LaunchOnlyGrounded ==
    [][/\ ev'.entered.isAirborne =>
             (car'.isAirborne /\ car'.verticalVelocity = ev'.entered.verticalVelocity)
       /\ LaunchedBy(ev', car') =>
             /\ car'.onRamp /\ car'.currentRamp \in 1..Len(ramps)
             /\ car'.verticalVelocity > 0
             /\ car'.verticalVelocity <= LaunchCap(ramps[car'.currentRamp])
             /\ ramps[car'.currentRamp].type = "ramp" =>
                   /\ AlongRamp(ev'.entered.position, ramps[car'.currentRamp]) > 800
                   /\ Abs(ev'.entered.speed) > 1000
                   /\ Alignment(ev'.entered.direction, ramps[car'.currentRamp]) > 700000]_vars

\* the car drove up the ramp at (30, 10) and was launched from its high end
C21_Witness ==
    /\ ticks > 0 /\ LaunchedBy(ev, car)
    /\ car.currentRamp = 6 /\ ramps[6].type = "ramp"
    /\ car.verticalVelocity > 0

\* a left or right steering key was held during the frame
SteeringHeld(e) == e.keys.left \/ e.keys.right

\* the speed s is above the drift threshold of 0.6 of the top speed
AboveDriftSpeed(s) == Abs(s) * 10 > 6 * maxSpeed

\* C22: when Car.update returns, isDrifting is true exactly if a steering
\* key is held, the speed left by the update's throttle step is above 0.6
\* of the top speed, the car was on the ground when the update began and
\* it is not on a ramp.
C22_DriftFlag ==
    ticks > 0 =>
        (ev.updated.isDrifting <=>
            /\ SteeringHeld(ev)
            /\ AboveDriftSpeed(ev.impactSpeed)
            /\ ~ev.airborneBefore
            /\ ~ev.updated.onRamp)

\* the car drifted into the tree: the flag is set although the update
\* ends with the car slowed to below the threshold
C22_Witness ==
    /\ ticks > 0 /\ ev.updated.isDrifting /\ ev.collided
    /\ SteeringHeld(ev) /\ ~AboveDriftSpeed(ev.carUpdateSpeed)

\* C22 as stated: the flag agrees with the speed and the airborne state
\* the car has when Car.update returns
C22_AsStated ==
    ticks > 0 =>
        (ev.updated.isDrifting <=>
            /\ SteeringHeld(ev)
            /\ AboveDriftSpeed(ev.carUpdateSpeed)
            /\ ~ev.updated.isAirborne
            /\ ~ev.updated.onRamp)

\* the marks of the list before that are still in the list after
Kept(before, after) ==
    SelectSeq(before, LAMBDA mark : \E j \in 1..Len(after) : after[j] = mark)

\* the marks of the list after that were not in the list before
Laid(before, after) ==
    SelectSeq(after, LAMBDA mark : \A j \in 1..Len(before) : before[j] # mark)

\* the last n entries of the list
LastOf(marks, n) == SubSeq(marks, Len(marks) - n + 1, Len(marks))

\* C23: the list of drift marks never holds more than maxDriftMarks (100)
\* marks; marks are laid only in a frame in which the car is drifting and
\* the drifting time gathered since the last pair has reached
\* driftMarkInterval (0.05 s); and the marks that leave the list are the
\* oldest: what stays of the old list is its tail, followed by the new
\* marks, and a pair that is due is laid however full the list is.
C23_MarkCap ==
    [][/\ Len(car'.driftMarks) <= maxDriftMarks
       /\ (/\ ev'.updated.isDrifting
           /\ car.lastDriftMarkTime + ev'.deltaTime >= driftMarkInterval) =>
             /\ Len(car'.driftMarks) >= 2
             /\ LastOf(car'.driftMarks, 2)
                    = <<[creationTime |-> time', wheel |-> "left"],
                        [creationTime |-> time', wheel |-> "right"]>>
       /\ Laid(car.driftMarks, car'.driftMarks) # <<>> =>
             /\ ev'.updated.isDrifting
             /\ car.lastDriftMarkTime + ev'.deltaTime >= driftMarkInterval
       /\ Kept(car.driftMarks, car'.driftMarks)
              = LastOf(car.driftMarks, Len(Kept(car.driftMarks, car'.driftMarks)))
       /\ car'.driftMarks
              = Kept(car.driftMarks, car'.driftMarks) \o Laid(car.driftMarks, car'.driftMarks)]_vars

\* the list is full, its first mark is younger than the lifespan and
\* younger than the first mark the car started with: a pair was laid on
\* a full list and the oldest marks made room for it
C23_Witness ==
    /\ ticks > 0 /\ Len(car.driftMarks) = maxDriftMarks
    /\ car.driftMarks[1].creationTime > 50
    /\ time - car.driftMarks[1].creationTime < lifespan
    /\ car.driftMarks[maxDriftMarks].creationTime = time

\* the entry has a position and, if it is tested as a box, a mesh with
\* geometry parameters
Whole(o) ==
    /\ o.hasPosition
    /\ o.type \in {"building", "skyscraper", "boundary", "stadium"} =>
          (o.mesh /\ o.geometry /\ o.parameters)

\* entry i of the list is whole and its shape is hit at p
WholeHit(p, obs, i) == Whole(obs[i]) /\ ShapeHits(p, obs[i])

\* C24: an entry of the obstacle list without a position, or a box-type
\* entry without mesh, geometry or geometry parameters, is passed over by
\* the collision scan, which goes on: the scan reports the first whole
\* entry that hits, wherever the defective entries stand in the list, and
\* no collision exactly when no whole entry hits.
C24_SkipsDefective ==
    /\ ev.result.colliding = (\E i \in 1..Len(obstacles) : WholeHit(ev.position, obstacles, i))
    /\ ev.result.colliding =>
          /\ ev.result.obstacle \in 1..Len(obstacles)
          /\ WholeHit(ev.position, obstacles, ev.result.obstacle)
          /\ \A j \in 1..(ev.result.obstacle - 1) : ~WholeHit(ev.position, obstacles, j)

\* the list begins with two defective entries and a call after the first
\* reports the wall behind them
C24_Witness ==
    /\ ev.position.x > -9700
    /\ ~Whole(obstacles[1]) /\ ~obstacles[1].hasPosition
    /\ Len(obstacles) = 3 /\ ~Whole(obstacles[2])
    /\ ev.result.colliding /\ ev.result.obstacle = 3

\* p is inside the rectangle pedestrians are kept in: halfBounds less the
\* buffer of 5
InsidePlayable(p) == Abs(p.x) <= HalfSize - 500 /\ Abs(p.z) <= HalfSize - 500

\* C25: every living pedestrian is inside the playable rectangle and at
\* y = 0 at the end of every frame, walking or fleeing, given that all of
\* them start inside it.
C25_StaysInside ==
    \A i \in 1..Len(humans) :
        ~humans[i].isDead =>
            (InsidePlayable(humans[i].position) /\ humans[i].position.y = 0)

\* the prop stands where it is reset to, upright state, nothing moving
Restored(obj) ==
    /\ ~obj.isKnockedOver
    /\ obj.velocity = ZeroVec /\ obj.angularVelocity = ZeroVec
    /\ obj.position = obj.originalPosition

\* the car is more than 50 from the prop
CarFarFrom(obj) == DistGT(car.position, obj.position, 5000)

\* C26: while the car stays more than 50 away from a knocked-over prop,
\* whatever the frame lengths, the prop is eventually reset: not knocked
\* over, velocity and angular velocity zero, at its stored reset position.
C26_EventuallyReset ==
    (physicsObjects[1].isKnockedOver /\ CarFarFrom(physicsObjects[1]))
        ~> (Restored(physicsObjects[1]) \/ ~CarFarFrom(physicsObjects[1]))

\* the crate that never came to rest was reset once its timer had passed
\* 60 s
C26_Witness ==
    /\ ticks > 0 /\ Restored(physicsObjects[1])
    /\ ev.resets = <<TRUE>>
    /\ physicsObjects[1].resetTimer > 60000
    /\ CarFarFrom(physicsObjects[1])


\* the meter after a frame of dt that depletes it / recharges it
Depleted(b, dt) == Max(0, b.available - 30 * dt)

Recharged(b, dt) == Min(100000, b.available + 10 * dt)

\* C27: whatever the interleaving of frames with presses and releases of
\* the space bar, the boost meter stays in 0..max; a frame depletes it when
\* the active flag is set and the meter is above 0 at the start of the
\* frame and recharges it otherwise, never both; and a press of the space
\* bar while the meter is at 0 does not set the active flag.
C27_BoostMeter ==
    [][/\ boost.available >= 0 /\ boost.available <= 100000
       /\ boost'.available >= 0 /\ boost'.available <= 100000
       /\ ticks' = ticks + 1 =>
             /\ boost'.available = IF boost.active /\ boost.available > 0
                                   THEN Depleted(boost, ev'.deltaTime)
                                   ELSE Recharged(boost, ev'.deltaTime)
             /\ ev'.deltaTime > 0 =>
                   Depleted(boost, ev'.deltaTime) # Recharged(boost, ev'.deltaTime)
       /\ (ticks' = ticks /\ boost.available = 0) => (boost'.active => boost.active)
      ]_vars

\* the space bar was pressed while the meter was empty and the flag is not
\* set; the meter was drained by a frame with the flag set
C27_Witness ==
    /\ ev.key = " " /\ boost.available = 0 /\ ~boost.active
    /\ ticks > 0

RECURSIVE DeathPoints(_, _, _)
\* the point values of the pedestrians among the first i who are alive in
\* before and dead in after
DeathPoints(before, after, i) ==
    IF i = 0 THEN 0
    ELSE DeathPoints(before, after, i - 1)
         + (IF ~before[i].isDead /\ after[i].isDead THEN before[i].pointValue ELSE 0)

\* pedestrian i lies dead within reach of a car fast enough to kill
RunOverAgain(i) ==
    /\ ev.was[i] = "dead" /\ humans[i].isDead
    /\ DistLT(humans[i].position, car.position, 180 + humans[i].boundingRadius)
    /\ Abs(car.speed) > 500

\* C28: over any sequence of frames each pedestrian adds its pointValue to
\* the score at most once, in the frame it dies (a dead pedestrian stays
\* dead and adds nothing when the car reaches it again), and the score
\* never decreases.
C28_ScoreOnce ==
    [][/\ score' >= score
       /\ \A i \in 1..Len(humans) : humans[i].isDead => humans'[i] = humans[i]
       /\ score' = score + DeathPoints(humans, humans', Len(humans))
      ]_vars

\* the car is on a pedestrian it killed in an earlier frame, fast enough
\* to kill, and the score is that one pedestrian's pointValue
C28_Witness ==
    ticks > 0 /\ \E i \in 1..Len(humans) :
        /\ RunOverAgain(i)
        /\ score = humans[i].pointValue
        /\ \A j \in 1..Len(humans) : humans[j].isDead => j = i

\* the car, where this frame leaves it, touches prop i
Touches(i) == DistLT(car'.position, physicsObjects[i].position, 180 + physicsObjects[i].radius)

RECURSIVE SlowedBy(_, _, _, _)
\* the speed left of speed after the first i props took their share: each
\* prop knocked over in this frame takes min(0.8, mass / 100) of it
SlowedBy(speed, props, awarded, i) ==
    IF i = 0 THEN speed
    ELSE IF awarded[i] > 0
    THEN MulDiv(SlowedBy(speed, props, awarded, i - 1), 1000 - Min(800, props[i].mass * 10), 1000)
    ELSE SlowedBy(speed, props, awarded, i - 1)

RECURSIVE SumAwarded(_, _)
SumAwarded(awarded, i) == IF i = 0 THEN 0 ELSE SumAwarded(awarded, i - 1) + awarded[i]

\* a prop that was knocked over before the frame is left to its own motion
LeftAlone(i) ==
    /\ ev'.awarded[i] = 0
    /\ physicsObjects'[i].velocity \in {MoveProp(physicsObjects[i], ev'.deltaTime).velocity, ZeroVec}
    /\ physicsObjects'[i].angularVelocity
           \in {MoveProp(physicsObjects[i], ev'.deltaTime).angularVelocity, ZeroVec}

\* a standing prop is judged by the speed the car had when
\* updatePhysicsObjects began
JudgedAtStart(i) ==
    /\ physicsObjects'[i].isKnockedOver
           <=> (Touches(i) /\ ev'.propSpeed > 2 * knockoverThreshold(physicsObjects[i].type))
    /\ ev'.awarded[i] > 0 <=> physicsObjects'[i].isKnockedOver
    /\ physicsObjects'[i].isKnockedOver =>
           physicsObjects'[i].velocity
               = KnockVelocity(physicsObjects[i], car'.position, ev'.propSpeed, car'.direction)

\* C29: contact of the car with a prop that is already knocked over has no
\* effect: no score, no new velocity for the prop, no slowdown of the car;
\* score for a prop is added only in the frame that takes it from standing
\* to knocked over; and the props knocked over in one frame are all judged
\* by the speed the car had when updatePhysicsObjects began.
C29_KnockedOverUntouched ==
    [][/\ \A i \in 1..Len(physicsObjects) :
              IF physicsObjects[i].isKnockedOver THEN LeftAlone(i) ELSE JudgedAtStart(i)
       /\ score' = score + SumAwarded(ev'.awarded, Len(physicsObjects))
       /\ Abs(car'.speed)
              = SlowedBy(ev'.propSpeed, physicsObjects, ev'.awarded, Len(physicsObjects))
      ]_vars

\* one frame knocked over the crate and the bench, the bench at a speed
\* the car no longer had after the crate, while the car touched the lying
\* barrel, which added nothing
C29_Witness ==
    /\ ticks = 1
    /\ ev.awarded[1] > 0 /\ ev.awarded[2] > 0 /\ ev.awarded[3] = 0
    /\ score = ev.awarded[1] + ev.awarded[2]
    /\ MulDiv(ev.propSpeed, 700, 1000) <= 2 * knockoverThreshold("bench")
    /\ DistLT(car.position, ev.moved[3], 180 + physicsObjects[3].radius)
    /\ physicsObjects[3].isKnockedOver

\* prop i, where its motion step of this frame took it, is more than 50
\* from the car or beyond 500 from the centre
MayBeReset(i) ==
    \/ DistGT(car'.position, ev'.moved[i], 5000)
    \/ Abs(ev'.moved[i].x) > 50000 \/ Abs(ev'.moved[i].z) > 50000

\* C30: the reset timer of a prop is never cleared: a reset leaves it as it
\* is, it grows only by the frame's deltaTime, and only in frames in which
\* the prop is knocked over and stays so, so it never decreases over
\* knock-overs and resets; once it has passed 60 s the prop is due for its
\* reset in every frame that finds it knocked over, the first one included.
C30_TimerNeverCleared ==
    [][\A i \in 1..Len(physicsObjects) :
          /\ physicsObjects'[i].resetTimer >= physicsObjects[i].resetTimer
          /\ ev'.resets[i] => physicsObjects'[i].resetTimer = physicsObjects[i].resetTimer
          /\ physicsObjects'[i].resetTimer # physicsObjects[i].resetTimer =>
                 /\ physicsObjects[i].isKnockedOver /\ physicsObjects'[i].isKnockedOver
                 /\ physicsObjects[i].resetTimer <= 60000
                 /\ physicsObjects'[i].resetTimer
                        = physicsObjects[i].resetTimer + ev'.deltaTime
          /\ (physicsObjects[i].isKnockedOver /\ physicsObjects[i].resetTimer > 60000) =>
                 /\ physicsObjects'[i].resetTimer = physicsObjects[i].resetTimer
                 /\ ev'.resets[i] <=> MayBeReset(i)
                 /\ MayBeReset(i) =>
                        /\ ~physicsObjects'[i].isKnockedOver
                        /\ physicsObjects'[i].position = physicsObjects'[i].originalPosition
      ]_vars

\* the crate whose timer stood at 61 s was knocked over in the first frame
\* and reset in the second, its first frame knocked over, with the timer
\* still at 61 s; the crate beside it, knocked over in the same frame, was
\* not reset and its timer grew
C30_Witness ==
    /\ ticks = 2
    /\ ev.resets[1] /\ ~physicsObjects[1].isKnockedOver
    /\ physicsObjects[1].resetTimer = 61000
    /\ score >= 220
    /\ ~ev.resets[2] /\ physicsObjects[2].isKnockedOver
    /\ physicsObjects[2].resetTimer = ev.deltaTime /\ ev.deltaTime > 0
====
